---- MODULE Spec2Model ----
(***************************************************************************)
(* State-machine model of the data structures and graph algorithms of the *)
(* repository: LRUCache, LFUCache, LazySegmentTree, UnionFind, dijkstra,  *)
(* bellmanFord, floydWarshall, kruskal and prim.  Each structure has its  *)
(* own specification (SpecLRU, SpecLFU, ...) over a shared set of         *)
(* variables; the structures that a specification does not exercise stay  *)
(* in their freshly constructed state.                                     *)
(***************************************************************************)
EXTENDS Integers, Sequences, FiniteSets, TLC

VARIABLES
  lru,      \* the LRUCache object: capacity, cache (key map), node fields
  lruGhost, \* history of the LRU run: rank of the last touch of each key
  lfu,      \* the LFUCache object
  lfuGhost, \* history of the LFU run: last-touch rank and uses per key
  seg,      \* the LazySegmentTree object: n, tree, lazy
  segGhost, \* the plain array that received the same updates, and their number
  uf,       \* the UnionFind object: parent, rank, size, count
  ufGhost,  \* the partition generated by the union(a, b) calls made so far
  gin,      \* the input of the graph algorithms: n, edges, start
  dj,       \* the dijkstra run: pc, distances, previous, visited, pq
  bf,       \* the result of bellmanFord, once called
  fw,       \* the result of floydWarshall, once called
  mg,       \* the input of the spanning-tree algorithms: n, edges
  kr,       \* the result of kruskal, once called
  pr,       \* the result of prim, once called, and its start vertex
  ain,      \* the input of aStar: grid, start, end
  ast,      \* the aStar run: pc, openSet, closedSet, cameFrom, scores, result
  fen,      \* the FenwickTree object: n, tree
  fenGhost, \* the plain array that received the same additions, and their number
  pst,      \* the SegmentTree object: n, kind (its combine and identity), tree
  pstGhost, \* the plain array that received the same point updates (arr), and
            \* the array that the factory was given (initial)
  ws,       \* the snapshot lists returned by the WithSteps variants, once called
  ttl,      \* the LRUCacheWithTTL object: cache (an LRUCache of entries), defaultTTL
  now,      \* the clock: what Date.now() returns
  ttlGhost, \* for each cached key the time, ttl and value of its last put
  rb,       \* the UnionFindWithRollback object: parent, rank, history
  rbGhost,  \* the checkpoints still ahead of no rollback: the number save()
            \* returned (c), the parent array and the root of every element then
  call      \* the last call made: operation, arguments, return value

lruVars == <<lru, lruGhost>>
lfuVars == <<lfu, lfuGhost>>
segVars == <<seg, segGhost>>
ufVars == <<uf, ufGhost>>
graphVars == <<gin, dj, bf, fw>>
mstVars == <<mg, kr, pr>>
astarVars == <<ain, ast>>
fenVars == <<fen, fenGhost>>
pstVars == <<pst, pstGhost>>
stepsVars == <<ws>>
ttlVars == <<ttl, now, ttlGhost>>
rbVars == <<rb, rbGhost>>
vars ==
  <<lruVars, lfuVars, segVars, ufVars, graphVars, mstVars, astarVars,
    fenVars, pstVars, stepsVars, ttlVars, rbVars, call>>

\* what the actions of one structure leave alone
notLRU ==
  <<lfuVars, segVars, ufVars, graphVars, mstVars, astarVars, fenVars,
    pstVars, stepsVars, ttlVars, rbVars>>
notLFU ==
  <<lruVars, segVars, ufVars, graphVars, mstVars, astarVars, fenVars,
    pstVars, stepsVars, ttlVars, rbVars>>
notSeg ==
  <<lruVars, lfuVars, ufVars, graphVars, mstVars, astarVars, fenVars,
    pstVars, stepsVars, ttlVars, rbVars>>
notUF ==
  <<lruVars, lfuVars, segVars, graphVars, mstVars, astarVars, fenVars,
    pstVars, stepsVars, ttlVars, rbVars>>
notGraph ==
  <<lruVars, lfuVars, segVars, ufVars, mstVars, astarVars, fenVars,
    pstVars, stepsVars, ttlVars, rbVars>>
notAStar ==
  <<lruVars, lfuVars, segVars, ufVars, graphVars, mstVars, fenVars,
    pstVars, stepsVars, ttlVars, rbVars>>
notMST ==
  <<lruVars, lfuVars, segVars, ufVars, graphVars, astarVars, fenVars,
    pstVars, stepsVars, ttlVars, rbVars>>
notFen ==
  <<lruVars, lfuVars, segVars, ufVars, graphVars, mstVars, astarVars,
    pstVars, stepsVars, ttlVars, rbVars>>
notPointSeg ==
  <<lruVars, lfuVars, segVars, ufVars, graphVars, mstVars, astarVars,
    fenVars, stepsVars, ttlVars, rbVars>>
notSteps ==
  <<lruVars, lfuVars, segVars, ufVars, graphVars, mstVars, astarVars,
    fenVars, pstVars, ttlVars, rbVars>>
notTTL ==
  <<lruVars, lfuVars, segVars, ufVars, graphVars, mstVars, astarVars,
    fenVars, pstVars, stepsVars, rbVars>>
notRollback ==
  <<lruVars, lfuVars, segVars, ufVars, graphVars, mstVars, astarVars,
    fenVars, pstVars, stepsVars, ttlVars>>

(***************************************************************************)
(* Bounds of the model.                                                    *)
(***************************************************************************)
NumKeys == 4
MaxCap == 3
MaxFreq == 3
MaxN == 3
MaxDelta == 1
MaxUpdates == 3
MaxElems == 4
MaxV == 3
MaxEdges == 3
MaxW == 1
MaxTieW == 3
MaxRows == 3
MaxFenN == 4
MaxCols == 3
MaxTime == 3
MaxTTL == 1
MaxTtlKeys == 3
MaxTtlCap == 2
\* the largest number of checkpoints of a UnionFindWithRollback kept at a time
MaxSaves == 2

Keys == 1 .. NumKeys
\* two distinguishable payloads: the caches never inspect a value
Vals == {1, 2}

\* null / undefined
NULL == -2000000

\* the number NaN: what arithmetic on undefined gives
NaN == -3000000

\* a[i] of an array: undefined where the array has no element i
At(a, i) == IF i \in DOMAIN a THEN a[i] ELSE NULL

\* a[i] = v on an array: the element is added if the array has none at i
Store(a, i, v) == [j \in DOMAIN a \cup {i} |-> IF j = i THEN v ELSE a[j]]

IsNumber(a) == a # NULL /\ a # NaN

\* a + b and a < b of values that may be undefined or NaN
JsPlus(a, b) == IF IsNumber(a) /\ IsNumber(b) THEN a + b ELSE NaN
JsLess(a, b) == IsNumber(a) /\ IsNumber(b) /\ a < b

NoCall == [op |-> "new"]

\* threw in the record of a call tells whether the call raised an error.  No
\* method of the caches has a throw statement, and a dereference of null
\* would be an application outside the domain of a function here.

(***************************************************************************)
(* LRUCache  (src/src/data-structures/lruCache.ts)                         *)
(* A node is identified by its key (the cache holds at most one node per   *)
(* key); HEAD and TAIL are the two dummy nodes.                            *)
(***************************************************************************)
HEAD == 0
TAIL == -1
LRUNodes == Keys \cup {HEAD, TAIL}

\* constructor(capacity)
LRUCache(capacity) ==
  [capacity |-> capacity,
   cache |-> {},
   value |-> [k \in Keys |-> NULL],
   next |-> [x \in LRUNodes |-> IF x = HEAD THEN TAIL ELSE NULL],
   prev |-> [x \in LRUNodes |-> IF x = TAIL THEN HEAD ELSE NULL]]

\* new LRUNode(key, value): prev = next = null
LRUNode(c, key, value) ==
  [c EXCEPT !.value[key] = value, !.next[key] = NULL, !.prev[key] = NULL]

\* addToFront(node), statement by statement
LRU_addToFront(c, node) ==
  LET c1 == [c EXCEPT !.prev[node] = HEAD]
      c2 == [c1 EXCEPT !.next[node] = c1.next[HEAD]]
      c3 == [c2 EXCEPT !.prev[c2.next[HEAD]] = node]
  IN  [c3 EXCEPT !.next[HEAD] = node]

\* removeNode(node)
LRU_removeNode(c, node) ==
  LET c1 == [c EXCEPT !.next[c.prev[node]] = c.next[node]]
  IN  [c1 EXCEPT !.prev[c1.next[node]] = c1.prev[node]]

\* moveToFront(node)
LRU_moveToFront(c, node) == LRU_addToFront(LRU_removeNode(c, node), node)

\* removeLast(): the removed node (or NULL) and the cache afterwards
LRU_removeLast(c) ==
  LET node == c.prev[TAIL]
  IN  IF node # NULL /\ node # HEAD
      THEN [c |-> LRU_removeNode(c, node), node |-> node]
      ELSE [c |-> c, node |-> NULL]

\* this.cache.delete(key): the map entry goes and with it the last reference
\* to the node, whose fields are no longer part of the program state
LRU_cacheDelete(c, key) ==
  [c EXCEPT !.cache = @ \ {key},
            !.value[key] = NULL, !.next[key] = NULL, !.prev[key] = NULL]

\* size()
LRU_size(c) == Cardinality(c.cache)

\* has(key)
LRU_has(c, key) == key \in c.cache

\* LRU_get without the promotion of the node that was read
LRU_get_noPromote(c, key) ==
  IF key \notin c.cache
  THEN [c |-> c, ret |-> NULL]
  ELSE [c |-> c, ret |-> c.value[key]]

\* get(key): the cache afterwards and the returned value
LRU_get(c, key) ==
  IF key \notin c.cache
  THEN [c |-> c, ret |-> NULL]
  ELSE [c |-> LRU_moveToFront(c, key), ret |-> c.value[key]]

\* LRU_put that evicts only once the map is two over capacity
LRU_put_lateEviction(c, key, value) ==
  IF key \in c.cache
  THEN LRU_moveToFront([c EXCEPT !.value[key] = value], key)
  ELSE LET c1 == LRUNode(c, key, value)
           c2 == [c1 EXCEPT !.cache = @ \cup {key}]
           c3 == LRU_addToFront(c2, key)
       IN  IF LRU_size(c3) > c3.capacity + 1
           THEN LET r == LRU_removeLast(c3)
                IN  IF r.node # NULL THEN LRU_cacheDelete(r.c, r.node) ELSE r.c
           ELSE c3

\* put(key, value)
LRU_put(c, key, value) ==
  IF key \in c.cache
  THEN LRU_moveToFront([c EXCEPT !.value[key] = value], key)
  ELSE LET c1 == LRUNode(c, key, value)
           c2 == [c1 EXCEPT !.cache = @ \cup {key}]
           c3 == LRU_addToFront(c2, key)
       IN  IF LRU_size(c3) > c3.capacity
           THEN LET r == LRU_removeLast(c3)
                IN  IF r.node # NULL THEN LRU_cacheDelete(r.c, r.node) ELSE r.c
           ELSE c3

\* LRU_delete that leaves the node in the list
LRU_delete_keepNode(c, key) ==
  IF key \notin c.cache
  THEN [c |-> c, ret |-> FALSE]
  ELSE [c |-> [c EXCEPT !.cache = @ \ {key}], ret |-> TRUE]

\* delete(key): the cache afterwards and the returned boolean
LRU_delete(c, key) ==
  IF key \notin c.cache
  THEN [c |-> c, ret |-> FALSE]
  ELSE [c |-> LRU_cacheDelete(LRU_removeNode(c, key), key), ret |-> TRUE]

\* clear(): the map is emptied and the sentinels point at each other; the
\* nodes are no longer referenced
LRU_clear(c) == LRUCache(c.capacity)

\* keys(): walk from head.next to the tail sentinel
RECURSIVE LRU_keysFrom(_, _, _)
LRU_keysFrom(c, node, fuel) ==
  IF node = NULL \/ node = TAIL \/ fuel = 0
  THEN <<>>
  ELSE <<node>> \o LRU_keysFrom(c, c.next[node], fuel - 1)

LRU_keys(c) == LRU_keysFrom(c, c.next[HEAD], NumKeys + 2)

(***************************************************************************)
(* The LRU run.  lruGhost.touched[k] is the time of the most recent        *)
(* successful get or put on key k (0 when k is not cached).  Only the      *)
(* order of these times matters, so after every call they are renumbered   *)
(* 1, 2, ... in the same order; runs of any length stay in a finite state  *)
(* space.                                                                  *)
(***************************************************************************)
Latest(touched) ==
  CHOOSE t \in {touched[k] : k \in Keys} :
    \A k \in Keys : touched[k] <= t

Renumber(touched) ==
  [k \in Keys |->
     IF touched[k] = 0 THEN 0
     ELSE Cardinality({j \in Keys : 0 < touched[j] /\ touched[j] <= touched[k]})]

LRU_touch(g, key, gone) ==
  [touched |-> Renumber([k \in Keys |->
                  IF k = key THEN Latest(g.touched) + 1
                  ELSE IF k \in gone THEN 0 ELSE g.touched[k]])]

LruGet(k) ==
  LET r == LRU_get(lru, k)
  IN  /\ UNCHANGED notLRU
      /\ lru' = r.c
      /\ call' = [op |-> "get", key |-> k, val |-> NULL, ret |-> r.ret,
                  present |-> LRU_has(lru, k), sizeBefore |-> LRU_size(lru),
                  threw |-> FALSE]
      /\ lruGhost' = IF r.ret # NULL THEN LRU_touch(lruGhost, k, {})
                     ELSE lruGhost

LruPut(k, v) ==
  LET c == LRU_put(lru, k, v)
  IN  /\ UNCHANGED notLRU
      /\ lru' = c
      /\ call' = [op |-> "put", key |-> k, val |-> v, ret |-> NULL,
                  present |-> LRU_has(lru, k), sizeBefore |-> LRU_size(lru),
                  threw |-> FALSE]
      /\ lruGhost' = IF k \in c.cache
                     THEN LRU_touch(lruGhost, k, lru.cache \ c.cache)
                     ELSE lruGhost

LruDelete(k) ==
  LET r == LRU_delete(lru, k)
  IN  /\ UNCHANGED notLRU
      /\ lru' = r.c
      /\ call' = [op |-> "delete", key |-> k, val |-> NULL, ret |-> r.ret,
                  present |-> LRU_has(lru, k), sizeBefore |-> LRU_size(lru),
                  threw |-> FALSE]
      /\ lruGhost' = [touched |-> Renumber([lruGhost.touched EXCEPT ![k] = 0])]

LruFresh == [touched |-> [k \in Keys |-> 0]]

LruHas(k) ==
  /\ UNCHANGED <<notLRU, lru, lruGhost>>
  /\ call' = [op |-> "has", key |-> k, val |-> NULL, ret |-> LRU_has(lru, k),
              present |-> LRU_has(lru, k), sizeBefore |-> LRU_size(lru),
                  threw |-> FALSE]

LruClear ==
  /\ UNCHANGED notLRU
  /\ lru' = LRU_clear(lru)
  /\ lruGhost' = LruFresh
  /\ call' = [op |-> "clear", key |-> NULL, val |-> NULL, ret |-> NULL,
              present |-> FALSE, sizeBefore |-> LRU_size(lru),
                  threw |-> FALSE]

InitLRU ==
  /\ lru \in {LRUCache(cap) : cap \in 1 .. MaxCap}
  /\ lruGhost = LruFresh

NextLRU ==
  \/ \E k \in Keys : LruGet(k)
  \/ \E k \in Keys, v \in Vals : LruPut(k, v)
  \/ \E k \in Keys : LruDelete(k)
  \/ \E k \in Keys : LruHas(k)
  \/ LruClear

(***************************************************************************)
(* LFUCache  (src/src/data-structures/lfuCache.ts)                         *)
(* A DoublyLinkedList is the sequence of its nodes from head.next to       *)
(* tail.prev together with its size field; frequencyMap is a function      *)
(* whose domain is the set of frequencies that have a list.                *)
(***************************************************************************)
\* new DoublyLinkedList()
DoublyLinkedList == [items |-> <<>>, size |-> 0]

\* DoublyLinkedList.addToFront(node)
DLL_addToFront(list, node) ==
  [items |-> <<node>> \o list.items, size |-> list.size + 1]

\* DoublyLinkedList.removeNode(node)
DLL_removeNode(list, node) ==
  [items |-> SelectSeq(list.items, LAMBDA x : x # node),
   size |-> list.size - 1]

\* DLL_removeLast taking the node next to the head instead of the tail's
DLL_removeLast_first(list) ==
  IF list.size = 0
  THEN [list |-> list, node |-> NULL]
  ELSE LET node == list.items[1]
       IN  [list |-> DLL_removeNode(list, node), node |-> node]

\* DoublyLinkedList.removeLast(): the removed node (or NULL) and the list
DLL_removeLast(list) ==
  IF list.size = 0
  THEN [list |-> list, node |-> NULL]
  ELSE LET node == list.items[Len(list.items)]
       IN  [list |-> DLL_removeNode(list, node), node |-> node]

\* DoublyLinkedList.isEmpty()
DLL_isEmpty(list) == list.size = 0

\* frequencyMap.has / set / delete
FM_has(fm, f) == f \in DOMAIN fm
FM_set(fm, f, list) == [g \in DOMAIN fm \cup {f} |-> IF g = f THEN list ELSE fm[g]]
FM_delete(fm, f) == [g \in DOMAIN fm \ {f} |-> fm[g]]

\* constructor(capacity)
LFUCache(capacity) ==
  [capacity |-> capacity,
   cache |-> {},
   value |-> [k \in Keys |-> NULL],
   frequency |-> [k \in Keys |-> NULL],
   frequencyMap |-> <<>>,
   minFrequency |-> 0]

\* this.cache.delete(key): the node is no longer referenced
LFU_cacheDelete(c, key) ==
  [c EXCEPT !.cache = @ \ {key}, !.value[key] = NULL, !.frequency[key] = NULL]

\* size()
LFU_size(c) == Cardinality(c.cache)

\* has(key)
LFU_has(c, key) == key \in c.cache

\* updateFrequency(node)
LFU_updateFrequency(c, node) ==
  LET oldFreq == c.frequency[node]
      oldList == DLL_removeNode(c.frequencyMap[oldFreq], node)
      c1 == [c EXCEPT !.frequencyMap[oldFreq] = oldList]
      c2 == IF DLL_isEmpty(oldList)
            THEN [c1 EXCEPT !.frequencyMap = FM_delete(@, oldFreq),
                            !.minFrequency =
                               IF @ = oldFreq THEN @ + 1 ELSE @]
            ELSE c1
      c3 == [c2 EXCEPT !.frequency[node] = @ + 1]
      newFreq == c3.frequency[node]
      c4 == IF ~FM_has(c3.frequencyMap, newFreq)
            THEN [c3 EXCEPT !.frequencyMap = FM_set(@, newFreq, DoublyLinkedList)]
            ELSE c3
  IN  [c4 EXCEPT !.frequencyMap[newFreq] = DLL_addToFront(@, node)]

\* evict()
LFU_evict(c) ==
  IF ~FM_has(c.frequencyMap, c.minFrequency)
  THEN c
  ELSE LET r == DLL_removeLast(c.frequencyMap[c.minFrequency])
           c1 == [c EXCEPT !.frequencyMap[c.minFrequency] = r.list]
           c2 == IF r.node # NULL THEN LFU_cacheDelete(c1, r.node) ELSE c1
       IN  IF DLL_isEmpty(r.list)
           THEN [c2 EXCEPT !.frequencyMap = FM_delete(@, c.minFrequency)]
           ELSE c2

\* get(key): the cache afterwards and the returned value
LFU_get(c, key) ==
  IF key \notin c.cache
  THEN [c |-> c, ret |-> NULL]
  ELSE [c |-> LFU_updateFrequency(c, key), ret |-> c.value[key]]

\* put(key, value)
LFU_put(c, key, value) ==
  IF c.capacity <= 0
  THEN c
  ELSE IF key \in c.cache
  THEN LFU_updateFrequency([c EXCEPT !.value[key] = value], key)
  ELSE LET c1 == IF LFU_size(c) >= c.capacity THEN LFU_evict(c) ELSE c
           c2 == [c1 EXCEPT !.value[key] = value, !.frequency[key] = 1,
                            !.cache = @ \cup {key}]
           c3 == IF ~FM_has(c2.frequencyMap, 1)
                 THEN [c2 EXCEPT !.frequencyMap = FM_set(@, 1, DoublyLinkedList)]
                 ELSE c2
           c4 == [c3 EXCEPT !.frequencyMap[1] = DLL_addToFront(@, key)]
       IN  [c4 EXCEPT !.minFrequency = 1]

\* delete(key) running its empty-list branch for a key that is not cached
LFU_delete_missBumps(c, key) ==
  IF key \notin c.cache
  THEN [c |-> [c EXCEPT !.minFrequency = @ + 1], ret |-> FALSE]
  ELSE LET freq == c.frequency[key]
           list == DLL_removeNode(c.frequencyMap[freq], key)
           c1 == [c EXCEPT !.frequencyMap[freq] = list]
           c2 == LFU_cacheDelete(c1, key)
           c3 == IF DLL_isEmpty(list)
                 THEN [c2 EXCEPT !.frequencyMap = FM_delete(@, freq),
                                 !.minFrequency = IF @ = freq THEN @ + 1 ELSE @]
                 ELSE c2
       IN  [c |-> c3, ret |-> TRUE]

\* delete(key): the cache afterwards and the returned boolean
LFU_delete(c, key) ==
  IF key \notin c.cache
  THEN [c |-> c, ret |-> FALSE]
  ELSE LET freq == c.frequency[key]
           list == DLL_removeNode(c.frequencyMap[freq], key)
           c1 == [c EXCEPT !.frequencyMap[freq] = list]
           c2 == LFU_cacheDelete(c1, key)
           c3 == IF DLL_isEmpty(list)
                 THEN [c2 EXCEPT !.frequencyMap = FM_delete(@, freq),
                                 !.minFrequency = IF @ = freq THEN @ + 1 ELSE @]
                 ELSE c2
       IN  [c |-> c3, ret |-> TRUE]

(***************************************************************************)
(* The LFU run.  lfuGhost.touched[k] is the (renumbered) time of the most  *)
(* recent successful get or put on key k and uses[k] is 1 + the number of  *)
(* successful get or put-update calls on k since k was inserted (both 0    *)
(* when k is not cached).  A key is touched at most until its frequency    *)
(* reaches MaxFreq.                                                        *)
(***************************************************************************)
LfuFresh ==
  [touched |-> [k \in Keys |-> 0], uses |-> [k \in Keys |-> 0]]

LFU_touch(g, key, gone) ==
  [touched |-> Renumber([k \in Keys |->
                  IF k = key THEN Latest(g.touched) + 1
                  ELSE IF k \in gone THEN 0 ELSE g.touched[k]]),
   uses |-> [k \in Keys |->
               IF k = key THEN g.uses[k] + 1
               ELSE IF k \in gone THEN 0 ELSE g.uses[k]]]

LfuGet(k) ==
  LET r == LFU_get(lfu, k)
  IN  /\ UNCHANGED notLFU
      /\ lfuGhost.uses[k] < MaxFreq
      /\ lfu' = r.c
      /\ call' = [op |-> "get", key |-> k, val |-> NULL, ret |-> r.ret,
                  present |-> LFU_has(lfu, k), sizeBefore |-> LFU_size(lfu),
                  threw |-> FALSE]
      /\ lfuGhost' = IF r.ret # NULL THEN LFU_touch(lfuGhost, k, {})
                     ELSE lfuGhost

LfuPut(k, v) ==
  LET c == LFU_put(lfu, k, v)
  IN  /\ UNCHANGED notLFU
      /\ lfuGhost.uses[k] < MaxFreq
      /\ lfu' = c
      /\ call' = [op |-> "put", key |-> k, val |-> v, ret |-> NULL,
                  present |-> LFU_has(lfu, k), sizeBefore |-> LFU_size(lfu),
                  threw |-> FALSE]
      /\ lfuGhost' = IF k \in c.cache
                     THEN LFU_touch(lfuGhost, k, lfu.cache \ c.cache)
                     ELSE lfuGhost

LfuDelete(k) ==
  LET r == LFU_delete(lfu, k)
  IN  /\ UNCHANGED notLFU
      /\ lfu' = r.c
      /\ call' = [op |-> "delete", key |-> k, val |-> NULL, ret |-> r.ret,
                  present |-> LFU_has(lfu, k), sizeBefore |-> LFU_size(lfu),
                  threw |-> FALSE]
      /\ lfuGhost' = [touched |-> Renumber([lfuGhost.touched EXCEPT ![k] = 0]),
                      uses |-> [lfuGhost.uses EXCEPT ![k] = 0]]

InitLFU ==
  /\ lfu \in {LFUCache(cap) : cap \in 1 .. MaxCap}
  /\ lfuGhost = LfuFresh

NextLFU ==
  \/ \E k \in Keys : LfuGet(k)
  \/ \E k \in Keys, v \in Vals : LfuPut(k, v)
  \/ \E k \in Keys : LfuDelete(k)

(***************************************************************************)
(* The caches constructed with a capacity that is not positive.            *)
(***************************************************************************)
NonPositive == -MaxCap .. 0

InitNonPositive ==
  /\ lru \in {LRUCache(cap) : cap \in NonPositive}
  /\ lruGhost = LruFresh
  /\ lfu \in {LFUCache(cap) : cap \in NonPositive}
  /\ lfuGhost = LfuFresh

NextNonPositive ==
  \/ \E k \in Keys, v \in Vals : LruPut(k, v)
  \/ \E k \in Keys : LruGet(k)
  \/ \E k \in Keys, v \in Vals : LfuPut(k, v)
  \/ \E k \in Keys : LfuGet(k)

(***************************************************************************)
(* LazySegmentTree  (src/src/data-structures/segmentTree.ts)               *)
(* The object is [n, tree, lazy]; tree and lazy are arrays of length 4n.   *)
(* A helper that mutates the object returns the object afterwards.         *)
(***************************************************************************)
Mid(start, end) == (start + end) \div 2

\* build(arr, node, start, end)
RECURSIVE LST_build(_, _, _, _, _)
LST_build(t, arr, node, start, end) ==
  IF start = end
  THEN [t EXCEPT !.tree[node] = arr[start]]
  ELSE LET mid == Mid(start, end)
           t1 == LST_build(t, arr, 2 * node, start, mid)
           t2 == LST_build(t1, arr, 2 * node + 1, mid + 1, end)
       IN  [t2 EXCEPT !.tree[node] = t2.tree[2 * node] + t2.tree[2 * node + 1]]

\* constructor(arr); arr is a function on 0 .. n-1
LazySegmentTree(arr) ==
  LET n == Cardinality(DOMAIN arr)
      t == [n |-> n,
            tree |-> [i \in 0 .. 4 * n - 1 |-> 0],
            lazy |-> [i \in 0 .. 4 * n - 1 |-> 0]]
  IN  IF n > 0 THEN LST_build(t, arr, 1, 0, n - 1) ELSE t

\* LST_pushDown that leaves the node's own lazy value in place
LST_pushDown_keepLazy(t, node, start, end) ==
  IF t.lazy[node] # 0
  THEN LET mid == Mid(start, end)
           t1 == [t EXCEPT !.tree[2 * node] = @ + t.lazy[node] * (mid - start + 1)]
           t2 == [t1 EXCEPT !.tree[2 * node + 1] = @ + t1.lazy[node] * (end - mid)]
           t3 == [t2 EXCEPT !.lazy[2 * node] = @ + t2.lazy[node]]
       IN  [t3 EXCEPT !.lazy[2 * node + 1] = @ + t3.lazy[node]]
  ELSE t

\* LST_pushDown that adds to the children's sums without marking them lazy
LST_pushDown_unmarked(t, node, start, end) ==
  IF t.lazy[node] # 0
  THEN LET mid == Mid(start, end)
           t1 == [t EXCEPT !.tree[2 * node] = @ + t.lazy[node] * (mid - start + 1)]
           t2 == [t1 EXCEPT !.tree[2 * node + 1] = @ + t1.lazy[node] * (end - mid)]
       IN  [t2 EXCEPT !.lazy[node] = 0]
  ELSE t

\* pushDown(node, start, end)
LST_pushDown(t, node, start, end) ==
  IF t.lazy[node] # 0
  THEN LET mid == Mid(start, end)
           t1 == [t EXCEPT !.tree[2 * node] = @ + t.lazy[node] * (mid - start + 1)]
           t2 == [t1 EXCEPT !.tree[2 * node + 1] = @ + t1.lazy[node] * (end - mid)]
           t3 == [t2 EXCEPT !.lazy[2 * node] = @ + t2.lazy[node]]
           t4 == [t3 EXCEPT !.lazy[2 * node + 1] = @ + t3.lazy[node]]
       IN  [t4 EXCEPT !.lazy[node] = 0]
  ELSE t

\* rangeUpdateHelper(node, start, end, l, r, delta)
RECURSIVE LST_rangeUpdateHelper(_, _, _, _, _, _, _)
LST_rangeUpdateHelper(t, node, start, end, l, r, delta) ==
  IF r < start \/ end < l
  THEN t
  ELSE IF l <= start /\ end <= r
  THEN [t EXCEPT !.tree[node] = @ + delta * (end - start + 1),
                 !.lazy[node] = @ + delta]
  ELSE LET t1 == LST_pushDown(t, node, start, end)
           mid == Mid(start, end)
           t2 == LST_rangeUpdateHelper(t1, 2 * node, start, mid, l, r, delta)
           t3 == LST_rangeUpdateHelper(t2, 2 * node + 1, mid + 1, end, l, r, delta)
       IN  [t3 EXCEPT !.tree[node] = t3.tree[2 * node] + t3.tree[2 * node + 1]]

\* rangeUpdate(l, r, delta)
LST_rangeUpdate(t, l, r, delta) ==
  LST_rangeUpdateHelper(t, 1, 0, t.n - 1, l, r, delta)

\* queryHelper(node, start, end, l, r): the object afterwards and the sum
RECURSIVE LST_queryHelper(_, _, _, _, _, _)
LST_queryHelper(t, node, start, end, l, r) ==
  IF r < start \/ end < l
  THEN [t |-> t, ret |-> 0]
  ELSE IF l <= start /\ end <= r
  THEN [t |-> t, ret |-> t.tree[node]]
  ELSE LET t1 == LST_pushDown(t, node, start, end)
           mid == Mid(start, end)
           a == LST_queryHelper(t1, 2 * node, start, mid, l, r)
           b == LST_queryHelper(a.t, 2 * node + 1, mid + 1, end, l, r)
       IN  [t |-> b.t, ret |-> a.ret + b.ret]

\* query(l, r)
LST_query(t, l, r) == LST_queryHelper(t, 1, 0, t.n - 1, l, r)

(***************************************************************************)
(* The segment-tree run.  segGhost.arr is a plain array on which every     *)
(* rangeUpdate adds delta to each element of its range, one by one;        *)
(* segGhost.updates counts the rangeUpdate calls.                          *)
(***************************************************************************)
Deltas == (-MaxDelta .. MaxDelta) \ {0}

\* one point update of the plain array
PointAdd(arr, i, delta) == [arr EXCEPT ![i] = @ + delta]

\* delta added to arr[l], arr[l+1], ..., arr[r], one element at a time
RECURSIVE PointAddRange(_, _, _, _)
PointAddRange(arr, l, r, delta) ==
  IF l > r THEN arr
  ELSE PointAddRange(PointAdd(arr, l, delta), l + 1, r, delta)

\* arr[l] + ... + arr[r]
RECURSIVE PlainSum(_, _, _)
PlainSum(arr, l, r) ==
  IF l > r THEN 0 ELSE arr[l] + PlainSum(arr, l + 1, r)

SegRangeUpdate(l, r, delta) ==
  /\ UNCHANGED notSeg
  /\ segGhost.updates < MaxUpdates
  /\ seg' = LST_rangeUpdate(seg, l, r, delta)
  /\ segGhost' = [arr |-> PointAddRange(segGhost.arr, l, r, delta),
                  updates |-> segGhost.updates + 1]
  /\ call' = [op |-> "rangeUpdate", l |-> l, r |-> r, delta |-> delta,
              ret |-> NULL]

SegQuery(l, r) ==
  LET q == LST_query(seg, l, r)
  IN  /\ UNCHANGED notSeg
      /\ seg' = q.t
      /\ UNCHANGED segGhost
      /\ call' = [op |-> "query", l |-> l, r |-> r, delta |-> 0,
                  ret |-> q.ret]

SegArrays == UNION {[0 .. n - 1 -> 0 .. 1] : n \in 1 .. MaxN}

InitSeg ==
  /\ \E arr \in SegArrays :
       /\ seg = LazySegmentTree(arr)
       /\ segGhost = [arr |-> arr, updates |-> 0]

NextSeg ==
  \/ \E l \in 0 .. seg.n - 1 : \E r \in l .. seg.n - 1 :
       \E delta \in Deltas : SegRangeUpdate(l, r, delta)
  \/ \E l \in 0 .. seg.n - 1 : \E r \in l .. seg.n - 1 : SegQuery(l, r)

(***************************************************************************)
(* UnionFind  (src/src/data-structures/unionFind.ts)                       *)
(* The object is [parent, rank, size, count]; the arrays are functions on  *)
(* 0 .. n-1.  A method that mutates the object returns the object          *)
(* afterwards together with its return value.                              *)
(***************************************************************************)
\* constructor(n)
UnionFind(n) ==
  [parent |-> [i \in 0 .. n - 1 |-> i],
   rank |-> [i \in 0 .. n - 1 |-> 0],
   size |-> [i \in 0 .. n - 1 |-> 1],
   count |-> n]

\* find(x) that climbs to the root without rewriting a parent pointer
RECURSIVE UF_find_noCompression(_, _)
UF_find_noCompression(u, x) ==
  IF At(u.parent, x) # x
  THEN UF_find_noCompression(u, At(u.parent, x))
  ELSE [u |-> u, ret |-> At(u.parent, x)]

\* find(x), with path compression
RECURSIVE UF_find(_, _)
UF_find(u, x) ==
  IF At(u.parent, x) # x
  THEN LET r == UF_find(u, At(u.parent, x))
           u1 == [r.u EXCEPT !.parent = Store(@, x, r.ret)]
       IN  [u |-> u1, ret |-> At(u1.parent, x)]
  ELSE [u |-> u, ret |-> At(u.parent, x)]

\* UF_union that links the arguments themselves instead of their roots
UF_union_linkElements(u, x, y) ==
  LET fx == UF_find(u, x)
      fy == UF_find(fx.u, y)
      rootX == fx.ret
      rootY == fy.ret
      u0 == fy.u
  IN  IF rootX = rootY
      THEN [u |-> u0, ret |-> FALSE]
      ELSE LET u1 ==
                 IF u0.rank[rootX] < u0.rank[rootY]
                 THEN [u0 EXCEPT !.parent[x] = rootY,
                                 !.size[rootY] = @ + u0.size[rootX]]
                 ELSE IF u0.rank[rootX] > u0.rank[rootY]
                 THEN [u0 EXCEPT !.parent[y] = rootX,
                                 !.size[rootX] = @ + u0.size[rootY]]
                 ELSE [u0 EXCEPT !.parent[y] = rootX,
                                 !.size[rootX] = @ + u0.size[rootY],
                                 !.rank[rootX] = @ + 1]
           IN  [u |-> [u1 EXCEPT !.count = @ - 1], ret |-> TRUE]

\* UF_union that decrements count before comparing the roots
UF_union_countFirst(u, x, y) ==
  LET fx == UF_find(u, x)
      fy == UF_find(fx.u, y)
      rootX == fx.ret
      rootY == fy.ret
      u0 == [fy.u EXCEPT !.count = @ - 1]
  IN  IF rootX = rootY
      THEN [u |-> u0, ret |-> FALSE]
      ELSE LET u1 ==
                 IF u0.rank[rootX] < u0.rank[rootY]
                 THEN [u0 EXCEPT !.parent[rootX] = rootY,
                                 !.size[rootY] = @ + u0.size[rootX]]
                 ELSE IF u0.rank[rootX] > u0.rank[rootY]
                 THEN [u0 EXCEPT !.parent[rootY] = rootX,
                                 !.size[rootX] = @ + u0.size[rootY]]
                 ELSE [u0 EXCEPT !.parent[rootY] = rootX,
                                 !.size[rootX] = @ + u0.size[rootY],
                                 !.rank[rootX] = @ + 1]
           IN  [u |-> u1, ret |-> TRUE]

\* UF_union that raises the rank of the surviving root in every case
UF_union_rankAlways(u, x, y) ==
  LET fx == UF_find(u, x)
      fy == UF_find(fx.u, y)
      rootX == fx.ret
      rootY == fy.ret
      u0 == fy.u
      sizes == JsPlus(At(u0.size, rootX), At(u0.size, rootY))
  IN  IF rootX = rootY
      THEN [u |-> u0, ret |-> FALSE]
      ELSE LET u1 ==
                 IF JsLess(At(u0.rank, rootX), At(u0.rank, rootY))
                 THEN [u0 EXCEPT !.parent = Store(@, rootX, rootY),
                                 !.size = Store(@, rootY, sizes),
                                 !.rank = Store(@, rootY,
                                            JsPlus(At(u0.rank, rootY), 1))]
                 ELSE [u0 EXCEPT !.parent = Store(@, rootY, rootX),
                                 !.size = Store(@, rootX, sizes),
                                 !.rank = Store(@, rootX,
                                            JsPlus(At(u0.rank, rootX), 1))]
           IN  [u |-> [u1 EXCEPT !.count = @ - 1], ret |-> TRUE]

\* union(x, y), by rank
UF_union(u, x, y) ==
  LET fx == UF_find(u, x)
      fy == UF_find(fx.u, y)
      rootX == fx.ret
      rootY == fy.ret
      u0 == fy.u
      sizes == JsPlus(At(u0.size, rootX), At(u0.size, rootY))
  IN  IF rootX = rootY
      THEN [u |-> u0, ret |-> FALSE]
      ELSE LET u1 ==
                 IF JsLess(At(u0.rank, rootX), At(u0.rank, rootY))
                 THEN [u0 EXCEPT !.parent = Store(@, rootX, rootY),
                                 !.size = Store(@, rootY, sizes)]
                 ELSE IF JsLess(At(u0.rank, rootY), At(u0.rank, rootX))
                 THEN [u0 EXCEPT !.parent = Store(@, rootY, rootX),
                                 !.size = Store(@, rootX, sizes)]
                 ELSE [u0 EXCEPT !.parent = Store(@, rootY, rootX),
                                 !.size = Store(@, rootX, sizes),
                                 !.rank = Store(@, rootX,
                                            JsPlus(At(u0.rank, rootX), 1))]
           IN  [u |-> [u1 EXCEPT !.count = @ - 1], ret |-> TRUE]

\* connected(x, y)
UF_connected(u, x, y) ==
  LET fx == UF_find(u, x)
      fy == UF_find(fx.u, y)
  IN  [u |-> fy.u, ret |-> fx.ret = fy.ret]

\* getCount()
UF_getCount(u) == u.count

(***************************************************************************)
(* The union-find run.  ufGhost is the partition of 0 .. n-1 generated by  *)
(* the pairs passed to union so far: each union(a, b) merges the class of  *)
(* a with the class of b.                                                  *)
(***************************************************************************)
Elems(u) == DOMAIN u.parent

ClassOf(classes, x) == CHOOSE c \in classes : x \in c

MergeClasses(classes, a, b) ==
  LET ca == ClassOf(classes, a)
      cb == ClassOf(classes, b)
  IN  (classes \ {ca, cb}) \cup {ca \cup cb}

UfUnion(x, y) ==
  LET r == UF_union(uf, x, y)
  IN  /\ UNCHANGED notUF
      /\ uf' = r.u
      /\ ufGhost' = MergeClasses(ufGhost, x, y)
      /\ call' = [op |-> "union", x |-> x, y |-> y, ret |-> r.ret]

UfFind(x) ==
  LET r == UF_find(uf, x)
  IN  /\ UNCHANGED notUF
      /\ uf' = r.u
      /\ UNCHANGED ufGhost
      /\ call' = [op |-> "find", x |-> x, y |-> x, ret |-> r.ret]

UfConnected(x, y) ==
  LET r == UF_connected(uf, x, y)
  IN  /\ UNCHANGED notUF
      /\ uf' = r.u
      /\ UNCHANGED ufGhost
      /\ call' = [op |-> "connected", x |-> x, y |-> y, ret |-> r.ret]

InitUF ==
  /\ \E n \in 1 .. MaxElems :
       /\ uf = UnionFind(n)
       /\ ufGhost = {{i} : i \in 0 .. n - 1}

NextUF ==
  \/ \E x, y \in Elems(uf) : UfUnion(x, y)
  \/ \E x \in Elems(uf) : UfFind(x)
  \/ \E x, y \in Elems(uf) : UfConnected(x, y)

(***************************************************************************)
(* Graphs.  Vertices are 0 .. n-1, an edge is <<from, to, weight>>, an     *)
(* edge list is a sequence of edges and a WeightedGraph is a function      *)
(* from each vertex to the sequence of its <<neighbor, weight>> pairs.     *)
(* Infinity is a number larger than every path weight; Plus is the         *)
(* addition of JavaScript numbers, which absorbs Infinity.                 *)
(***************************************************************************)
Infinity == 1000000

Plus(a, b) == IF a = Infinity \/ b = Infinity THEN Infinity ELSE a + b

Vertices(n) == 0 .. n - 1

\* the sequence 0, 1, ..., n-1 (the keys of the graph, in insertion order)
VertexList(n) == [i \in 1 .. n |-> i - 1]

\* the adjacency map that holds the edges of an edge list, in their order
RECURSIVE GraphOf(_, _)
GraphOf(n, edges) ==
  IF edges = <<>>
  THEN [v \in Vertices(n) |-> <<>>]
  ELSE LET m == Len(edges)
           e == edges[m]
           g == GraphOf(n, SubSeq(edges, 1, m - 1))
       IN  [g EXCEPT ![e[1]] = Append(@, <<e[2], e[3]>>)]

\* array.sort((a, b) => a[i] - b[i]): a stable sort on component i
RECURSIVE SortBy(_, _)
SortBy(seq, i) ==
  IF seq = <<>>
  THEN <<>>
  ELSE LET m == Len(seq)
           x == seq[m]
           rest == SortBy(SubSeq(seq, 1, m - 1), i)
           keep == SelectSeq(rest, LAMBDA y : y[i] <= x[i])
           after == SelectSeq(rest, LAMBDA y : y[i] > x[i])
       IN  keep \o <<x>> \o after

(***************************************************************************)
(* dijkstra  (src/unnamed/part_003)                                        *)
(***************************************************************************)
\* lines 26-38: the maps and the queue before the loop
DJ_start(graph, start) ==
  [pc |-> "loop",
   distances |-> [v \in DOMAIN graph \cup {start} |->
                    IF v = start THEN 0 ELSE Infinity],
   previous |-> [v \in DOMAIN graph \cup {start} |-> NULL],
   visited |-> {},
   pq |-> << <<0, start>> >>]

\* lines 49-60: the loop over the neighbors of node, from the i-th on
RECURSIVE DJ_relax(_, _, _, _, _)
DJ_relax(d, neighbors, i, dist, node) ==
  IF i > Len(neighbors)
  THEN d
  ELSE LET neighbor == neighbors[i][1]
           weight == neighbors[i][2]
           newDist == Plus(dist, weight)
           currentDist == d.distances[neighbor]
       IN  IF neighbor \in d.visited
           THEN DJ_relax(d, neighbors, i + 1, dist, node)
           ELSE IF newDist < currentDist
           THEN DJ_relax([d EXCEPT !.distances[neighbor] = newDist,
                                   !.previous[neighbor] = node,
                                   !.pq = Append(@, <<newDist, neighbor>>)],
                         neighbors, i + 1, dist, node)
           ELSE DJ_relax(d, neighbors, i + 1, dist, node)

\* DJ_iterate that takes the entry pushed first instead of the smallest
DJ_iterate_fifo(d, graph) ==
  IF d.pq = <<>>
  THEN [d EXCEPT !.pc = "done"]
  ELSE LET sorted == d.pq
           dist == sorted[1][1]
           node == sorted[1][2]
           d1 == [d EXCEPT !.pq = Tail(sorted)]
       IN  IF node \in d1.visited
           THEN d1
           ELSE DJ_relax([d1 EXCEPT !.visited = @ \cup {node}],
                         graph[node], 1, dist, node)

\* lines 40-61: one pass of the while loop (or its exit)
DJ_iterate(d, graph) ==
  IF d.pq = <<>>
  THEN [d EXCEPT !.pc = "done"]
  ELSE LET sorted == SortBy(d.pq, 1)
           dist == sorted[1][1]
           node == sorted[1][2]
           d1 == [d EXCEPT !.pq = Tail(sorted)]
       IN  IF node \in d1.visited
           THEN d1
           ELSE DJ_relax([d1 EXCEPT !.visited = @ \cup {node}],
                         graph[node], 1, dist, node)

(***************************************************************************)
(* bellmanFord  (src/src/graphs/bellmanFord.ts)                            *)
(***************************************************************************)
\* the condition of lines 39 and 52
BF_canRelax(distances, e) ==
  LET distU == distances[e[1]]
      distV == distances[e[2]]
  IN  distU # Infinity /\ Plus(distU, e[3]) < distV

\* lines 35-43: one pass over the edges, from the i-th on
RECURSIVE BF_pass(_, _, _)
BF_pass(b, edges, i) ==
  IF i > Len(edges)
  THEN b
  ELSE LET e == edges[i]
       IN  IF BF_canRelax(b.distances, e)
           THEN BF_pass([b EXCEPT
                           !.distances[e[2]] = Plus(b.distances[e[1]], e[3]),
                           !.previous[e[2]] = e[1]],
                        edges, i + 1)
           ELSE BF_pass(b, edges, i + 1)

\* lines 34-44: passes i, i+1, ..., V-2
RECURSIVE BF_passes(_, _, _, _)
BF_passes(b, edges, i, V) ==
  IF i < V - 1 THEN BF_passes(BF_pass(b, edges, 1), edges, i + 1, V) ELSE b

\* bellmanFord with one relaxation pass too few
bellmanFord_shortLoop(vertices, edges, start) ==
  LET keys == {vertices[i] : i \in 1 .. Len(vertices)} \cup {start}
      b0 == [distances |-> [v \in keys |-> IF v = start THEN 0 ELSE Infinity],
             previous |-> [v \in keys |-> NULL]]
      V == Len(vertices)
      b1 == BF_passes(b0, edges, 1, V)
  IN  [called |-> TRUE,
       distances |-> b1.distances,
       previous |-> b1.previous,
       hasNegativeCycle |->
         \E i \in 1 .. Len(edges) : BF_canRelax(b1.distances, edges[i])]

\* bellmanFord(vertices, edges, start)
bellmanFord(vertices, edges, start) ==
  LET keys == {vertices[i] : i \in 1 .. Len(vertices)} \cup {start}
      b0 == [distances |-> [v \in keys |-> IF v = start THEN 0 ELSE Infinity],
             previous |-> [v \in keys |-> NULL]]
      V == Len(vertices)
      b1 == BF_passes(b0, edges, 0, V)
  IN  [called |-> TRUE,
       distances |-> b1.distances,
       previous |-> b1.previous,
       hasNegativeCycle |->
         \E i \in 1 .. Len(edges) : BF_canRelax(b1.distances, edges[i])]

\* graphToEdges(graph): the edges of vertex 0, then those of vertex 1, ...
RECURSIVE GraphToEdgesFrom(_, _, _)
GraphToEdgesFrom(graph, u, n) ==
  IF u >= n
  THEN <<>>
  ELSE [i \in 1 .. Len(graph[u]) |-> <<u, graph[u][i][1], graph[u][i][2]>>]
       \o GraphToEdgesFrom(graph, u + 1, n)

graphToEdges(graph) == GraphToEdgesFrom(graph, 0, Cardinality(DOMAIN graph))

(***************************************************************************)
(* floydWarshall  (src/src/graphs/floydWarshall.ts)                        *)
(* dist and next are functions from row to (function from column to value)*)
(***************************************************************************)
\* lines 21-32: the matrices before the edges are entered
FW_matrices(n) ==
  [dist |-> [i \in Vertices(n) |-> [j \in Vertices(n) |->
                IF i = j THEN 0 ELSE Infinity]],
   next |-> [i \in Vertices(n) |-> [j \in Vertices(n) |->
                IF i = j THEN i ELSE NULL]]]

\* lines 35-38: the edges, from the i-th on, are written into the matrices
RECURSIVE FW_enter(_, _, _)
FW_enter(f, edges, i) ==
  IF i > Len(edges)
  THEN f
  ELSE LET e == edges[i]
       IN  FW_enter([f EXCEPT !.dist[e[1]][e[2]] = e[3],
                              !.next[e[1]][e[2]] = e[2]],
                    edges, i + 1)

\* lines 41-50: the triple loop, flattened; step t has k = t / n^2,
\* i = (t / n) mod n, j = t mod n
RECURSIVE FW_loop(_, _, _)
FW_loop(f, t, n) ==
  IF t >= n * n * n
  THEN f
  ELSE LET k == t \div (n * n)
           i == (t \div n) % n
           j == t % n
           through == Plus(f.dist[i][k], f.dist[k][j])
       IN  IF through < f.dist[i][j]
           THEN FW_loop([f EXCEPT !.dist[i][j] = through,
                                  !.next[i][j] = f.next[i][k]],
                        t + 1, n)
           ELSE FW_loop(f, t + 1, n)

\* floydWarshall(n, edges)
floydWarshall(n, edges) ==
  LET f == FW_loop(FW_enter(FW_matrices(n), edges, 1), 0, n)
  IN  [called |-> TRUE,
       distances |-> f.dist,
       next |-> f.next,
       hasNegativeCycle |-> \E i \in Vertices(n) : f.dist[i][i] < 0]

(***************************************************************************)
(* The inputs: every edge list of at most MaxEdges edges over at most MaxV *)
(* vertices with weights from a range, each with every start vertex; and   *)
(* the graphs that the repository uses as examples.                        *)
(***************************************************************************)
EdgesOver(n, W) == Vertices(n) \X Vertices(n) \X W

SeqsUpTo(S, k) == UNION {[1 .. m -> S] : m \in 0 .. k}

\* gin is an edge list of at most MaxEdges edges over at most MaxV vertices
\* with weights in W and a start vertex, or one of the Examples
InputIn(W, Examples) ==
  \/ \E n \in 1 .. MaxV :
       \E es \in SeqsUpTo(EdgesOver(n, W), MaxEdges), st \in Vertices(n) :
         gin = [n |-> n, edges |-> es, start |-> st]
  \/ gin \in Examples

\* the graph of the concrete scenario: {0:[(1,4),(2,1)], 1:[(3,1)],
\* 2:[(1,2),(3,5)], 3:[]}, source 0
ScenarioInput ==
  [n |-> 4,
   edges |-> << <<0, 1, 4>>, <<0, 2, 1>>, <<1, 3, 1>>, <<2, 1, 2>>, <<2, 3, 5>> >>,
   start |-> 0]

\* the graph with a negative cycle of the bellmanFord demo, from vertex 0
NegCycleDemoInput ==
  [n |-> 4,
   edges |-> << <<0, 1, 1>>, <<1, 2, -1>>, <<2, 3, -1>>, <<3, 1, -1>> >>,
   start |-> 0]

\* a cycle through all four vertices whose weights sum to -1
FourCycleInput ==
  [n |-> 4,
   edges |-> << <<0, 1, 2>>, <<1, 2, -3>>, <<2, 3, 1>>, <<3, 0, -1>> >>,
   start |-> 0]

\* negative edges, no negative cycle
NegEdgeInput ==
  [n |-> 4,
   edges |-> << <<0, 1, 2>>, <<1, 2, -3>>, <<2, 3, 1>>, <<3, 0, 1>> >>,
   start |-> 0]

NotCalled == [called |-> FALSE]

IdleInput == [n |-> 1, edges |-> <<>>, start |-> 0]

TheGraph == GraphOf(gin.n, gin.edges)

(***************************************************************************)
(* The shortest-path run on a graph without negative weights: the caller   *)
(* runs dijkstra(graph, start), one pass of its loop at a time, and then   *)
(* calls bellmanFord on the keys and the edges of the same graph and       *)
(* floydWarshall on the edge list.                                         *)
(***************************************************************************)
DijkstraStart ==
  /\ UNCHANGED <<notGraph, gin, bf, fw>>
  /\ dj.pc = "new"
  /\ dj' = DJ_start(TheGraph, gin.start)
  /\ call' = [op |-> "dijkstra"]

DijkstraIterate ==
  /\ UNCHANGED <<notGraph, gin, bf, fw, call>>
  /\ dj.pc = "loop"
  /\ dj' = DJ_iterate(dj, TheGraph)

BellmanFordOnGraph ==
  /\ UNCHANGED <<notGraph, gin, dj, fw>>
  /\ dj.pc = "done" /\ ~bf.called
  /\ bf' = bellmanFord(VertexList(gin.n), graphToEdges(TheGraph), gin.start)
  /\ call' = [op |-> "bellmanFord"]

FloydWarshallAfter ==
  /\ UNCHANGED <<notGraph, gin, dj, bf>>
  /\ bf.called /\ ~fw.called
  /\ fw' = floydWarshall(gin.n, gin.edges)
  /\ call' = [op |-> "floydWarshall"]

InitPaths ==
  /\ InputIn(0 .. MaxW, {ScenarioInput})
  /\ dj = [pc |-> "new"]
  /\ bf = NotCalled
  /\ fw = NotCalled

NextPaths ==
  \/ DijkstraStart
  \/ DijkstraIterate
  \/ BellmanFordOnGraph
  \/ FloydWarshallAfter

(***************************************************************************)
(* The run on an edge list whose weights may be negative: the caller calls *)
(* bellmanFord and then floydWarshall on the edge list.                    *)
(***************************************************************************)
BellmanFordOnEdges ==
  /\ UNCHANGED <<notGraph, gin, dj, fw>>
  /\ ~bf.called
  /\ bf' = bellmanFord(VertexList(gin.n), gin.edges, gin.start)
  /\ call' = [op |-> "bellmanFord"]

InitSigned ==
  /\ InputIn(-MaxW .. MaxW, {NegCycleDemoInput, FourCycleInput, NegEdgeInput})
  /\ dj = [pc |-> "new"]
  /\ bf = NotCalled
  /\ fw = NotCalled

NextSigned ==
  \/ BellmanFordOnEdges
  \/ FloydWarshallAfter

(***************************************************************************)
(* kruskal and prim  (src/unnamed/part_005)                                *)
(* The UnionFind of this file has parent and rank only.                    *)
(***************************************************************************)
\* constructor(n)
MstUnionFind(n) ==
  [parent |-> [i \in Vertices(n) |-> i],
   rank |-> [i \in Vertices(n) |-> 0]]

\* find(x), with path compression: the object after the call and the root
RECURSIVE MstUF_find(_, _)
MstUF_find(u, x) ==
  IF u.parent[x] # x
  THEN LET r == MstUF_find(u, u.parent[x])
       IN  [u |-> [r.u EXCEPT !.parent[x] = r.ret], ret |-> r.ret]
  ELSE [u |-> u, ret |-> u.parent[x]]

\* union that reports a merge also when x and y already share a root
MstUF_union_always(u, x, y) ==
  LET fx == MstUF_find(u, x)
      fy == MstUF_find(fx.u, y)
  IN  [u |-> fy.u, ret |-> TRUE]

\* union(x, y): the object after the call and the returned boolean
MstUF_union(u, x, y) ==
  LET fx == MstUF_find(u, x)
      fy == MstUF_find(fx.u, y)
      rootX == fx.ret
      rootY == fy.ret
      u2 == fy.u
  IN  IF rootX = rootY
      THEN [u |-> u2, ret |-> FALSE]
      ELSE IF u2.rank[rootX] < u2.rank[rootY]
      THEN [u |-> [u2 EXCEPT !.parent[rootX] = rootY], ret |-> TRUE]
      ELSE IF u2.rank[rootX] > u2.rank[rootY]
      THEN [u |-> [u2 EXCEPT !.parent[rootY] = rootX], ret |-> TRUE]
      ELSE [u |-> [u2 EXCEPT !.parent[rootY] = rootX,
                             !.rank[rootX] = @ + 1],
            ret |-> TRUE]

\* lines 297-304: the loop over the sorted edges, from the i-th on
RECURSIVE KR_loop(_, _, _, _)
KR_loop(k, sortedEdges, i, n) ==
  IF i > Len(sortedEdges)
  THEN k
  ELSE LET e == sortedEdges[i]
           r == MstUF_union(k.uf, e[1], e[2])
       IN  IF r.ret
           THEN LET k2 == [uf |-> r.u,
                           edges |-> Append(k.edges, e),
                           totalWeight |-> k.totalWeight + e[3]]
                IN  IF Len(k2.edges) = n - 1
                    THEN k2
                    ELSE KR_loop(k2, sortedEdges, i + 1, n)
           ELSE KR_loop([k EXCEPT !.uf = r.u], sortedEdges, i + 1, n)

\* kruskal that takes the edges in the order given
kruskal_unsorted(n, edges) ==
  LET sortedEdges == edges
      k == KR_loop([uf |-> MstUnionFind(n), edges |-> <<>>, totalWeight |-> 0],
                   sortedEdges, 1, n)
  IN  [called |-> TRUE, edges |-> k.edges, totalWeight |-> k.totalWeight]

\* kruskal(n, edges)
kruskal(n, edges) ==
  LET sortedEdges == SortBy(edges, 3)
      k == KR_loop([uf |-> MstUnionFind(n), edges |-> <<>>, totalWeight |-> 0],
                   sortedEdges, 1, n)
  IN  [called |-> TRUE, edges |-> k.edges, totalWeight |-> k.totalWeight]

\* map.get(x) || []
AdjGet(adjList, x) == IF x \in DOMAIN adjList THEN adjList[x] ELSE <<>>

\* map.get(x)!.push(entry), after "if (!map.has(x)) map.set(x, [])"
AdjPush(adjList, x, entry) ==
  [y \in DOMAIN adjList \cup {x} |->
     IF y = x THEN Append(AdjGet(adjList, x), entry) ELSE adjList[y]]

\* edgesToAdjList(edges): each edge is entered at both of its ends
RECURSIVE edgesToAdjList(_)
edgesToAdjList(edges) ==
  IF edges = <<>>
  THEN <<>>
  ELSE LET m == Len(edges)
           e == edges[m]
           adjList == edgesToAdjList(SubSeq(edges, 1, m - 1))
       IN  AdjPush(AdjPush(adjList, e[1], <<e[2], e[3]>>),
                   e[2], <<e[1], e[3]>>)

\* lines 378-380 and 393-397: the crossing edges of node are pushed
RECURSIVE PR_push(_, _, _, _, _)
PR_push(pq, neighbors, i, node, inMST) ==
  IF i > Len(neighbors)
  THEN pq
  ELSE IF neighbors[i][1] \in inMST
  THEN PR_push(pq, neighbors, i + 1, node, inMST)
  ELSE PR_push(Append(pq, <<neighbors[i][2], node, neighbors[i][1]>>),
               neighbors, i + 1, node, inMST)

\* lines 382-398: the while loop
RECURSIVE PR_loop(_, _, _)
PR_loop(p, adjList, n) ==
  IF p.pq # <<>> /\ Len(p.edges) < n - 1
  THEN LET sorted == SortBy(p.pq, 1)
           weight == sorted[1][1]
           from == sorted[1][2]
           to == sorted[1][3]
           rest == Tail(sorted)
       IN  IF to \in p.inMST
           THEN PR_loop([p EXCEPT !.pq = rest], adjList, n)
           ELSE LET inMST == p.inMST \cup {to}
                IN  PR_loop([pq |-> PR_push(rest, AdjGet(adjList, to), 1, to,
                                            inMST),
                             inMST |-> inMST,
                             edges |-> Append(p.edges, <<from, to, weight>>),
                             totalWeight |-> p.totalWeight + weight],
                            adjList, n)
  ELSE p

\* prim(n, adjList, start)
prim(n, adjList, start) ==
  LET neighbors == AdjGet(adjList, start)
      p0 == [pq |-> [i \in 1 .. Len(neighbors) |->
                       <<neighbors[i][2], start, neighbors[i][1]>>],
             inMST |-> {start},
             edges |-> <<>>,
             totalWeight |-> 0]
      p == PR_loop(p0, adjList, n)
  IN  [called |-> TRUE, edges |-> p.edges, totalWeight |-> p.totalWeight,
       start |-> start]

\* the edges of the demo: 5 vertices, 7 weighted edges
MstDemoEdges ==
  << <<0, 1, 2>>, <<0, 3, 6>>, <<1, 2, 3>>, <<1, 3, 8>>, <<1, 4, 5>>,
     <<2, 4, 7>>, <<3, 4, 9>> >>

MstDemoInput == [n |-> 5, edges |-> MstDemoEdges]

\* the demo graph with every choice of weights in 1 .. MaxTieW
MstTieInputs ==
  {[n |-> 5,
    edges |-> [i \in 1 .. Len(MstDemoEdges) |->
                 <<MstDemoEdges[i][1], MstDemoEdges[i][2], w[i]>>]] :
     w \in [1 .. Len(MstDemoEdges) -> 1 .. MaxTieW]}

(***************************************************************************)
(* The spanning-tree run: the caller calls kruskal on the edge list and    *)
(* then prim on edgesToAdjList of the same list, from some start vertex.   *)
(***************************************************************************)
Kruskal ==
  /\ UNCHANGED <<notMST, mg, pr>>
  /\ ~kr.called
  /\ kr' = kruskal(mg.n, mg.edges)
  /\ call' = [op |-> "kruskal"]

Prim(start) ==
  /\ UNCHANGED <<notMST, mg, kr>>
  /\ kr.called /\ ~pr.called
  /\ pr' = prim(mg.n, edgesToAdjList(mg.edges), start)
  /\ call' = [op |-> "prim"]

InitMST ==
  /\ \/ \E n \in 1 .. MaxV :
          \E es \in SeqsUpTo(EdgesOver(n, -MaxW .. MaxW), MaxEdges) :
            mg = [n |-> n, edges |-> es]
     \/ mg \in MstTieInputs \cup {MstDemoInput}
  /\ kr = NotCalled
  /\ pr = NotCalled

NextMST ==
  \/ Kruskal
  \/ \E start \in Vertices(mg.n) : Prim(start)

(***************************************************************************)
(* aStar  (src/src/graphs/aStar.ts)                                        *)
(* A grid is a function from row to (function from column to 0 or 1); a    *)
(* cell is <<row, col>> and stands for its key "row,col".  openSet is the  *)
(* sequence of the open cells in the insertion order of the Map.           *)
(***************************************************************************)
\* the grid written as a sequence of rows
GridOf(rowsSeq) ==
  [r \in 0 .. Len(rowsSeq) - 1 |->
     [c \in 0 .. Len(rowsSeq[1]) - 1 |-> rowsSeq[r + 1][c + 1]]]

Rows(grid) == Cardinality(DOMAIN grid)
Cols(grid) == Cardinality(DOMAIN grid[0])
Cells(grid) == (0 .. Rows(grid) - 1) \X (0 .. Cols(grid) - 1)

Abs(x) == IF x < 0 THEN -x ELSE x

manhattanDistance(a, b) == Abs(a[1] - b[1]) + Abs(a[2] - b[2])

\* cameFrom.get(k) of a key that has no entry
NoKey == <<>>

directions == << <<0, 1>>, <<1, 0>>, <<0, -1>>, <<-1, 0>> >>

\* lines 56-68: the maps before the loop
AS_start(grid, start, end) ==
  [pc |-> "loop",
   openSet |-> <<start>>,
   closedSet |-> {},
   cameFrom |-> [x \in Cells(grid) \cup {start} |-> NoKey],
   gScore |-> [x \in Cells(grid) \cup {start} |->
                 IF x = start THEN 0 ELSE Infinity],
   fScore |-> [x \in Cells(grid) \cup {start} |->
                 IF x = start THEN manhattanDistance(start, end)
                 ELSE Infinity],
   nodesExplored |-> 0]

\* AS_pick that takes the entry inserted last
AS_pick_last(a) ==
  IF a.openSet = <<>> THEN 0 ELSE Len(a.openSet)

\* lines 72-83: the position in openSet of the first entry of lowest fScore
\* (0 if no entry has an fScore below Infinity)
AS_pick(a) ==
  LET better == {i \in 1 .. Len(a.openSet) :
                   /\ a.fScore[a.openSet[i]] < Infinity
                   /\ \A j \in 1 .. Len(a.openSet) :
                        \/ a.fScore[a.openSet[i]] < a.fScore[a.openSet[j]]
                        \/ (a.fScore[a.openSet[i]] = a.fScore[a.openSet[j]]
                              /\ i <= j)}
  IN  IF better = {} THEN 0 ELSE CHOOSE i \in better : TRUE

\* lines 90-96: the path that cameFrom leads back from curr
RECURSIVE AS_path(_, _)
AS_path(cameFrom, curr) ==
  IF curr = NoKey
  THEN <<>>
  ELSE AS_path(cameFrom, cameFrom[curr]) \o <<curr>>

\* lines 107-134: the loop over the directions, from the d-th on
RECURSIVE AS_expand(_, _, _, _, _)
AS_expand(a, grid, end, current, d) ==
  IF d > Len(directions)
  THEN a
  ELSE LET newRow == current[1] + directions[d][1]
           newCol == current[2] + directions[d][2]
           neighbor == <<newRow, newCol>>
           tentativeG == Plus(a.gScore[current], 1)
       IN  IF \/ newRow < 0 \/ newRow >= Rows(grid)
              \/ newCol < 0 \/ newCol >= Cols(grid)
           THEN AS_expand(a, grid, end, current, d + 1)
           ELSE IF grid[newRow][newCol] = 1 \/ neighbor \in a.closedSet
           THEN AS_expand(a, grid, end, current, d + 1)
           ELSE LET isOpen == \E i \in 1 .. Len(a.openSet) :
                                a.openSet[i] = neighbor
                    a1 == IF isOpen THEN a
                          ELSE [a EXCEPT !.openSet = Append(@, neighbor)]
                IN  IF isOpen /\ tentativeG >= a.gScore[neighbor]
                    THEN AS_expand(a, grid, end, current, d + 1)
                    ELSE AS_expand(
                           [a1 EXCEPT
                              !.cameFrom[neighbor] = current,
                              !.gScore[neighbor] = tentativeG,
                              !.fScore[neighbor] =
                                 Plus(tentativeG,
                                      manhattanDistance(neighbor, end))],
                           grid, end, current, d + 1)

\* lines 70-137: one pass of the while loop, or the return
AS_iterate(a, grid, end) ==
  LET i == AS_pick(a)
  IN  IF i = 0
      THEN [a EXCEPT !.pc = "done"] @@ [result |-> [found |-> FALSE]]
      ELSE LET current == a.openSet[i]
               a1 == [a EXCEPT !.nodesExplored = @ + 1]
           IN  IF current = end
               THEN [a1 EXCEPT !.pc = "done"] @@
                    [result |-> [found |-> TRUE,
                                 path |-> AS_path(a1.cameFrom, end),
                                 distance |-> a1.gScore[end],
                                 nodesExplored |-> a1.nodesExplored]]
               ELSE AS_expand(
                      [a1 EXCEPT
                         !.openSet = SelectSeq(@, LAMBDA x : x # current),
                         !.closedSet = @ \cup {current}],
                      grid, end, current, 1)

\* the grid of the demo
AStarDemoGrid ==
  GridOf(<< <<0, 0, 0, 0, 0>>,
            <<0, 1, 1, 1, 0>>,
            <<0, 0, 0, 1, 0>>,
            <<0, 1, 0, 0, 0>>,
            <<0, 0, 0, 1, 0>> >>)

\* the grids of the given size
Grids(rows, cols) == [0 .. rows - 1 -> [0 .. cols - 1 -> {0, 1}]]

Passable(grid) == {x \in Cells(grid) : grid[x[1]][x[2]] = 0}

(***************************************************************************)
(* The aStar run: the call with manhattanDistance on a grid between two    *)
(* passable cells, one pass of its loop at a time.                         *)
(***************************************************************************)
AStarStart ==
  /\ UNCHANGED <<notAStar, ain>>
  /\ ast.pc = "new"
  /\ ast' = AS_start(ain.grid, ain.start, ain.end)
  /\ call' = [op |-> "aStar"]

AStarIterate ==
  /\ UNCHANGED <<notAStar, ain, call>>
  /\ ast.pc = "loop"
  /\ ast' = AS_iterate(ast, ain.grid, ain.end)

InitAStar ==
  /\ \E rows \in 1 .. MaxRows, cols \in 1 .. MaxCols :
       \E grid \in Grids(rows, cols) \cup {AStarDemoGrid} :
         \E start, end \in Passable(grid) :
           ain = [grid |-> grid, start |-> start, end |-> end]
  /\ ast = [pc |-> "new"]

NextAStar ==
  \/ AStarStart
  \/ AStarIterate

(***************************************************************************)
(* FenwickTree  (src/src/pages/CategoryPage.tsx)                           *)
(* The object is [n, tree]; tree is a function on 0 .. n whose element 0   *)
(* is not used.                                                            *)
(***************************************************************************)
\* i & -i for i >= 0: the lowest set bit of i (0 for 0)
RECURSIVE LSB(_)
LSB(i) ==
  IF i = 0 THEN 0
  ELSE IF i % 2 = 1 THEN 1
  ELSE 2 * LSB(i \div 2)

\* lines 453-456: the loop of update, from the 1-indexed position i
RECURSIVE FEN_updateFrom(_, _, _)
FEN_updateFrom(t, i, delta) ==
  IF i <= t.n
  THEN FEN_updateFrom([t EXCEPT !.tree[i] = @ + delta], i + LSB(i), delta)
  ELSE t

\* update(i, delta)
FEN_update(t, i, delta) == FEN_updateFrom(t, i + 1, delta)

\* lines 444-446: update(i, arg[i]) for i, i+1, ..., of the 1-indexed arg
RECURSIVE FEN_fill(_, _, _)
FEN_fill(t, arg, i) ==
  IF i < Len(arg)
  THEN FEN_fill(FEN_update(t, i, arg[i + 1]), arg, i + 1)
  ELSE t

\* constructor(size)
FenwickTreeOfSize(size) == [n |-> size, tree |-> [i \in 0 .. size |-> 0]]

\* constructor(arr), arr a sequence
FenwickTree(arr) == FEN_fill(FenwickTreeOfSize(Len(arr)), arr, 0)

\* lines 469-472: the loop of prefixSum, from the 1-indexed position i
RECURSIVE FEN_prefixFrom(_, _, _)
FEN_prefixFrom(t, i, sum) ==
  IF i > 0
  THEN FEN_prefixFrom(t, i - LSB(i), JsPlus(sum, At(t.tree, i)))
  ELSE sum

\* prefixSum(i)
FEN_prefixSum(t, i) == FEN_prefixFrom(t, i + 1, 0)

\* query that subtracts the prefix up to l instead of l - 1
FEN_query_fromL(t, l, r) ==
  IF l > r THEN 0
  ELSE IF l = 0 THEN FEN_prefixSum(t, r)
  ELSE FEN_prefixSum(t, r) - FEN_prefixSum(t, l)

\* query(l, r)
FEN_query(t, l, r) ==
  IF l > r THEN 0
  ELSE IF l = 0 THEN FEN_prefixSum(t, r)
  ELSE FEN_prefixSum(t, r) - FEN_prefixSum(t, l - 1)

\* the plain array with the elements of a sequence
ArrayOf(arr) == [i \in 0 .. Len(arr) - 1 |-> arr[i + 1]]

FenUpdate(i, delta) ==
  /\ UNCHANGED notFen
  /\ fenGhost.updates < MaxUpdates
  /\ fen' = FEN_update(fen, i, delta)
  /\ fenGhost' = [arr |-> PointAdd(fenGhost.arr, i, delta),
                  updates |-> fenGhost.updates + 1]
  /\ call' = [op |-> "update", l |-> i, r |-> i, delta |-> delta,
              ret |-> NULL]

FenPrefixSum(i) ==
  /\ UNCHANGED <<notFen, fen, fenGhost>>
  /\ call' = [op |-> "prefixSum", l |-> 0, r |-> i, delta |-> 0,
              ret |-> FEN_prefixSum(fen, i)]

FenQuery(l, r) ==
  /\ UNCHANGED <<notFen, fen, fenGhost>>
  /\ call' = [op |-> "query", l |-> l, r |-> r, delta |-> 0,
              ret |-> FEN_query(fen, l, r)]

\* x << 1 on signed 32-bit integers: the low 31 bits of x doubled, the
\* result negative when bit 30 of x is set
ShiftLeft1(x) ==
  LET low == IF x < 0 THEN (x + 2147483647) + 1 ELSE x
  IN  IF low < 1073741824
      THEN low * 2
      ELSE (low - 1073741824) * 2 - 2147483647 - 1

\* lines 503-504: "while (bit <= n) bit <<= 1"
RECURSIVE FEN_bitAbove(_, _)
FEN_bitAbove(bit, n) ==
  IF bit <= n THEN FEN_bitAbove(ShiftLeft1(bit), n) ELSE bit

\* highestOneBit(n); ">> 1" halves and rounds down
FEN_highestOneBit(n) == FEN_bitAbove(1, n) \div 2

\* lines 490-497: the loop of findFirst
RECURSIVE FEN_findFrom(_, _, _, _, _)
FEN_findFrom(t, i, sum, mask, target) ==
  IF mask > 0
  THEN LET next == i + mask
       IN  IF next <= t.n /\ sum + t.tree[next] < target
           THEN FEN_findFrom(t, next, sum + t.tree[next], mask \div 2, target)
           ELSE FEN_findFrom(t, i, sum, mask \div 2, target)
  ELSE i

\* findFirst that returns the 1-indexed position
FEN_findFirst_oneIndexed(t, target) ==
  FEN_findFrom(t, 0, 0, FEN_highestOneBit(t.n), target) + 1

\* findFirst(target)
FEN_findFirst(t, target) ==
  FEN_findFrom(t, 0, 0, FEN_highestOneBit(t.n), target)

\* the targets asked for: from below every prefix sum to above every one
Targets == -1 .. 2 * MaxFenN + 1

FenFindFirst(target) ==
  /\ UNCHANGED <<notFen, fen, fenGhost>>
  /\ call' = [op |-> "findFirst", l |-> 0, r |-> 0, delta |-> target,
              ret |-> FEN_findFirst(fen, target)]

\* the tree as a frequency table: no update takes a count below zero
FenCount(i, delta) ==
  /\ fenGhost.arr[i] + delta >= 0
  /\ FenUpdate(i, delta)

NextFrequencies ==
  \/ \E i \in 0 .. fen.n - 1 : \E delta \in Deltas : FenCount(i, delta)
  \/ \E target \in Targets : FenFindFirst(target)

\* new FenwickTree(size) or new FenwickTree(arr)
InitFen ==
  \E n \in 1 .. MaxFenN :
    \/ /\ fen = FenwickTreeOfSize(n)
       /\ fenGhost = [arr |-> [i \in 0 .. n - 1 |-> 0], updates |-> 0]
    \/ \E arr \in [1 .. n -> 0 .. 1] :
         /\ fen = FenwickTree(arr)
         /\ fenGhost = [arr |-> ArrayOf(arr), updates |-> 0]

NextFen ==
  \/ \E i \in 0 .. fen.n - 1 : \E delta \in Deltas : FenUpdate(i, delta)
  \/ \E i \in 0 .. fen.n - 1 : FenPrefixSum(i)
  \/ \E l \in 0 .. fen.n - 1 : \E r \in l .. fen.n - 1 : FenQuery(l, r)

(***************************************************************************)
(* SegmentTree  (src/src/data-structures/segmentTree.ts)                   *)
(* The object is [n, kind, tree]; kind names the combine function and the  *)
(* identity that the factory passed; tree is a function on 0 .. 4n-1.      *)
(***************************************************************************)
\* (a, b) => a + b, Math.min, Math.max
ST_combine(kind, a, b) ==
  IF kind = "sum" THEN a + b
  ELSE IF kind = "min" THEN (IF a <= b THEN a ELSE b)
  ELSE (IF a >= b THEN a ELSE b)

\* an identity of 0 for every kind
ST_identity_zero(kind) == 0

\* 0, Infinity, -Infinity
ST_identity(kind) ==
  IF kind = "sum" THEN 0
  ELSE IF kind = "min" THEN Infinity
  ELSE -Infinity

\* build(arr, node, start, end), arr a plain array
RECURSIVE ST_build(_, _, _, _, _)
ST_build(t, arr, node, start, end) ==
  IF start = end
  THEN [t EXCEPT !.tree[node] = arr[start]]
  ELSE LET mid == Mid(start, end)
           t1 == ST_build(t, arr, 2 * node, start, mid)
           t2 == ST_build(t1, arr, 2 * node + 1, mid + 1, end)
       IN  [t2 EXCEPT !.tree[node] =
              ST_combine(t.kind, t2.tree[2 * node], t2.tree[2 * node + 1])]

\* constructor(arr, combine, identity), arr a sequence
SegmentTree(arr, kind) ==
  LET n == Len(arr)
      t == [n |-> n, kind |-> kind,
            tree |-> [i \in 0 .. 4 * n - 1 |-> ST_identity(kind)]]
  IN  IF n > 0 THEN ST_build(t, ArrayOf(arr), 1, 0, n - 1) ELSE t

createSumSegmentTree(arr) == SegmentTree(arr, "sum")
createMinSegmentTree(arr) == SegmentTree(arr, "min")
createMaxSegmentTree(arr) == SegmentTree(arr, "max")

\* updateHelper(node, start, end, i, value)
RECURSIVE ST_updateHelper(_, _, _, _, _, _)
ST_updateHelper(t, node, start, end, i, value) ==
  IF start = end
  THEN [t EXCEPT !.tree[node] = value]
  ELSE LET mid == Mid(start, end)
           t1 == IF i <= mid
                 THEN ST_updateHelper(t, 2 * node, start, mid, i, value)
                 ELSE ST_updateHelper(t, 2 * node + 1, mid + 1, end, i, value)
       IN  [t1 EXCEPT !.tree[node] =
              ST_combine(t.kind, t1.tree[2 * node], t1.tree[2 * node + 1])]

\* update(i, value)
ST_update(t, i, value) == ST_updateHelper(t, 1, 0, t.n - 1, i, value)

\* queryHelper(node, start, end, l, r)
RECURSIVE ST_queryHelper(_, _, _, _, _, _)
ST_queryHelper(t, node, start, end, l, r) ==
  IF r < start \/ end < l
  THEN ST_identity(t.kind)
  ELSE IF l <= start /\ end <= r
  THEN t.tree[node]
  ELSE LET mid == Mid(start, end)
           leftResult == ST_queryHelper(t, 2 * node, start, mid, l, r)
           rightResult == ST_queryHelper(t, 2 * node + 1, mid + 1, end, l, r)
       IN  ST_combine(t.kind, leftResult, rightResult)

\* query(l, r)
ST_query(t, l, r) == ST_queryHelper(t, 1, 0, t.n - 1, l, r)

\* the values that elements take
SegValues == -MaxDelta .. MaxDelta

PointSegUpdate(i, value) ==
  /\ UNCHANGED notPointSeg
  /\ pst' = ST_update(pst, i, value)
  /\ pstGhost' = [pstGhost EXCEPT !.arr[i] = value]
  /\ call' = [op |-> "update", l |-> i, r |-> i, value |-> value,
              ret |-> NULL]

PointSegQuery(l, r) ==
  /\ UNCHANGED <<notPointSeg, pst, pstGhost>>
  /\ call' = [op |-> "query", l |-> l, r |-> r, value |-> NULL,
              ret |-> ST_query(pst, l, r)]

\* createSumSegmentTree(arr), createMinSegmentTree(arr) or
\* createMaxSegmentTree(arr)
InitPointSeg ==
  \E n \in 1 .. MaxN : \E arr \in [1 .. n -> SegValues] :
    /\ pst \in {createSumSegmentTree(arr), createMinSegmentTree(arr),
                createMaxSegmentTree(arr)}
    /\ pstGhost = [arr |-> ArrayOf(arr), initial |-> ArrayOf(arr)]

NextPointSeg ==
  \/ \E i \in 0 .. pst.n - 1 : \E value \in SegValues :
       PointSegUpdate(i, value)
  \/ \E l \in 0 .. pst.n - 1 : \E r \in l .. pst.n - 1 : PointSegQuery(l, r)

(***************************************************************************)
(* Calls with an index out of range.  On a freshly built UnionFind,        *)
(* FenwickTree and SegmentTree of the same size the caller makes one call  *)
(* whose index is -1 or n.  The record of the call tells whether it raised *)
(* an error (threw) and whether it came to an end (terminated).            *)
(***************************************************************************)
OutOfRange(n) == {-1, n}

\* update(i, delta) never leaves its loop: i + 1 is within 1 .. n or below,
\* and adding its lowest set bit does not move it
FEN_updateSpins(t, i) == i + 1 <= t.n /\ LSB(i + 1) = 0

MisuseFind(x) ==
  LET r == UF_find(uf, x)
  IN  /\ UNCHANGED <<notUF, ufGhost>>
      /\ call = NoCall
      /\ uf' = r.u
      /\ call' = [op |-> "find", args |-> <<x>>, ret |-> r.ret,
                  outOfRange |-> TRUE, threw |-> FALSE, terminated |-> TRUE]

MisuseUnion(x, y) ==
  LET r == UF_union(uf, x, y)
  IN  /\ UNCHANGED <<notUF, ufGhost>>
      /\ call = NoCall
      /\ uf' = r.u
      /\ call' = [op |-> "union", args |-> <<x, y>>, ret |-> r.ret,
                  outOfRange |-> TRUE, threw |-> FALSE, terminated |-> TRUE]

\* a spinning update has added delta to tree[0] when it is first observed
MisuseFenUpdate(i, delta) ==
  /\ UNCHANGED <<notFen, fenGhost>>
  /\ call = NoCall
  /\ fen' = IF FEN_updateSpins(fen, i)
            THEN [fen EXCEPT !.tree[0] = @ + delta]
            ELSE FEN_update(fen, i, delta)
  /\ call' = [op |-> "update", args |-> <<i, delta>>, ret |-> NULL,
              outOfRange |-> TRUE, threw |-> FALSE,
              terminated |-> ~FEN_updateSpins(fen, i)]

MisuseFenPrefixSum(i) ==
  /\ UNCHANGED <<notFen, fen, fenGhost>>
  /\ call = NoCall
  /\ call' = [op |-> "prefixSum", args |-> <<i>>,
              ret |-> FEN_prefixSum(fen, i),
              outOfRange |-> TRUE, threw |-> FALSE, terminated |-> TRUE]

MisusePointSegUpdate(i, value) ==
  /\ UNCHANGED <<notPointSeg, pstGhost>>
  /\ call = NoCall
  /\ pst' = ST_update(pst, i, value)
  /\ call' = [op |-> "SegmentTree.update", args |-> <<i, value>>,
              ret |-> NULL,
              outOfRange |-> TRUE, threw |-> FALSE, terminated |-> TRUE]

InitMisuse ==
  \E n \in 1 .. MaxN : \E arr \in [1 .. n -> SegValues] :
    /\ uf = UnionFind(n)
    /\ ufGhost = {{x} : x \in 0 .. n - 1}
    /\ fen = FenwickTree(arr)
    /\ fenGhost = [arr |-> ArrayOf(arr), updates |-> 0]
    /\ pst \in {createSumSegmentTree(arr), createMinSegmentTree(arr),
                createMaxSegmentTree(arr)}
    /\ pstGhost = [arr |-> ArrayOf(arr), initial |-> ArrayOf(arr)]

NextMisuse ==
  \/ \E x \in OutOfRange(fen.n) : MisuseFind(x)
  \/ \E x \in OutOfRange(fen.n), y \in OutOfRange(fen.n) \cup (0 .. fen.n - 1) :
       MisuseUnion(x, y) \/ MisuseUnion(y, x)
  \/ \E i \in OutOfRange(fen.n), delta \in Deltas : MisuseFenUpdate(i, delta)
  \/ \E i \in OutOfRange(fen.n) : MisuseFenPrefixSum(i)
  \/ \E i \in OutOfRange(fen.n), value \in SegValues :
       MisusePointSegUpdate(i, value)

(***************************************************************************)
(* The WithSteps variants  (src/unnamed/part_003, src/unnamed/part_005)    *)
(* A snapshot holds copies of the maps and lists at the time of the push;  *)
(* its description string is left out.                                     *)
(***************************************************************************)
\* a DijkstraStep: copies of distances, visited and previous
DJS_snapshot(d, current) ==
  [distances |-> d.distances,
   visited |-> d.visited,
   current |-> current,
   path |-> d.previous]

\* lines 106-126: the loop over the neighbors of node, from the i-th on
RECURSIVE DJS_relax(_, _, _, _, _)
DJS_relax(d, neighbors, i, dist, node) ==
  IF i > Len(neighbors)
  THEN d
  ELSE LET neighbor == neighbors[i][1]
           weight == neighbors[i][2]
           newDist == Plus(dist, weight)
           currentDist == d.distances[neighbor]
       IN  IF neighbor \in d.visited
           THEN DJS_relax(d, neighbors, i + 1, dist, node)
           ELSE IF newDist < currentDist
           THEN LET d1 == [d EXCEPT !.distances[neighbor] = newDist,
                                    !.previous[neighbor] = node,
                                    !.pq = Append(@, <<newDist, neighbor>>)]
                IN  DJS_relax([d1 EXCEPT !.steps =
                                 Append(@, DJS_snapshot(d1, node))],
                              neighbors, i + 1, dist, node)
           ELSE DJS_relax(d, neighbors, i + 1, dist, node)

\* lines 90-127: the while loop
RECURSIVE DJS_loop(_, _)
DJS_loop(d, graph) ==
  IF d.pq = <<>>
  THEN d
  ELSE LET sorted == SortBy(d.pq, 1)
           dist == sorted[1][1]
           node == sorted[1][2]
           d1 == [d EXCEPT !.pq = Tail(sorted)]
       IN  IF node \in d1.visited
           THEN DJS_loop(d1, graph)
           ELSE LET d2 == [d1 EXCEPT !.visited = @ \cup {node}]
                    d3 == [d2 EXCEPT !.steps =
                             Append(@, DJS_snapshot(d2, node))]
                IN  DJS_loop(DJS_relax(d3, graph[node], 1, dist, node), graph)

\* dijkstraWithSteps(graph, start): the list of snapshots
dijkstraWithSteps(graph, start) ==
  LET d0 == [distances |-> [v \in DOMAIN graph \cup {start} |->
                              IF v = start THEN 0 ELSE Infinity],
             previous |-> [v \in DOMAIN graph \cup {start} |-> NULL],
             visited |-> {},
             pq |-> << <<0, start>> >>,
             steps |-> <<>>]
      d1 == [d0 EXCEPT !.steps = <<DJS_snapshot(d0, start)>>]
      d == DJS_loop(d1, graph)
  IN  Append(d.steps, DJS_snapshot(d, NULL))

\* an MSTStep
MSTStep(edges, currentEdge, mstEdges, totalWeight) ==
  [edges |-> edges,
   currentEdge |-> currentEdge,
   mstEdges |-> mstEdges,
   totalWeight |-> totalWeight]

\* part_005 lines 326-351: the loop over the sorted edges, from the i-th on
RECURSIVE KRS_loop(_, _, _, _)
KRS_loop(k, sortedEdges, i, n) ==
  IF i > Len(sortedEdges)
  THEN k
  ELSE LET e == sortedEdges[i]
           r == MstUF_union(k.uf, e[1], e[2])
       IN  IF r.ret
           THEN LET edges == Append(k.edges, e)
                    totalWeight == k.totalWeight + e[3]
                    k2 == [uf |-> r.u,
                           edges |-> edges,
                           totalWeight |-> totalWeight,
                           steps |-> Append(k.steps,
                                       MSTStep(sortedEdges, e, edges,
                                               totalWeight))]
                IN  IF Len(k2.edges) = n - 1
                    THEN k2
                    ELSE KRS_loop(k2, sortedEdges, i + 1, n)
           ELSE KRS_loop([k EXCEPT !.uf = r.u,
                                   !.steps = Append(@,
                                      MSTStep(sortedEdges, e, k.edges,
                                              k.totalWeight))],
                         sortedEdges, i + 1, n)

\* kruskalWithSteps that takes the edges in the order given
kruskalWithSteps_unsorted(n, edges) ==
  LET sortedEdges == edges
      k == KRS_loop([uf |-> MstUnionFind(n), edges |-> <<>>, totalWeight |-> 0,
                     steps |-> <<MSTStep(sortedEdges, NULL, <<>>, 0)>>],
                    sortedEdges, 1, n)
  IN  Append(k.steps, MSTStep(sortedEdges, NULL, k.edges, k.totalWeight))

\* kruskalWithSteps(n, edges): the list of snapshots
kruskalWithSteps(n, edges) ==
  LET sortedEdges == SortBy(edges, 3)
      k == KRS_loop([uf |-> MstUnionFind(n), edges |-> <<>>, totalWeight |-> 0,
                     steps |-> <<MSTStep(sortedEdges, NULL, <<>>, 0)>>],
                    sortedEdges, 1, n)
  IN  Append(k.steps, MSTStep(sortedEdges, NULL, k.edges, k.totalWeight))

\* pq.map((e) => [e[1], e[2], e[0]])
PRS_edges(pq) == [i \in 1 .. Len(pq) |-> <<pq[i][2], pq[i][3], pq[i][1]>>]

\* part_005 lines 436-467: the while loop
RECURSIVE PRS_loop(_, _, _)
PRS_loop(p, adjList, n) ==
  IF p.pq # <<>> /\ Len(p.edges) < n - 1
  THEN LET sorted == SortBy(p.pq, 1)
           weight == sorted[1][1]
           from == sorted[1][2]
           to == sorted[1][3]
           rest == Tail(sorted)
       IN  IF to \in p.inMST
           THEN PRS_loop([p EXCEPT !.pq = rest,
                                   !.steps = Append(@,
                                      MSTStep(PRS_edges(rest),
                                              <<from, to, weight>>,
                                              p.edges, p.totalWeight))],
                         adjList, n)
           ELSE LET inMST == p.inMST \cup {to}
                    edges == Append(p.edges, <<from, to, weight>>)
                    totalWeight == p.totalWeight + weight
                IN  PRS_loop([pq |-> PR_push(rest, AdjGet(adjList, to), 1, to,
                                             inMST),
                              inMST |-> inMST,
                              edges |-> edges,
                              totalWeight |-> totalWeight,
                              steps |-> Append(p.steps,
                                          MSTStep(PRS_edges(rest),
                                                  <<from, to, weight>>,
                                                  edges, totalWeight))],
                             adjList, n)
  ELSE p

\* primWithSteps(n, adjList, start): the list of snapshots
primWithSteps(n, adjList, start) ==
  LET neighbors == AdjGet(adjList, start)
      pq == [i \in 1 .. Len(neighbors) |->
               <<neighbors[i][2], start, neighbors[i][1]>>]
      p0 == [pq |-> pq,
             inMST |-> {start},
             edges |-> <<>>,
             totalWeight |-> 0,
             steps |-> <<MSTStep(<<>>, NULL, <<>>, 0),
                         MSTStep(PRS_edges(pq), NULL, <<>>, 0)>>]
      p == PRS_loop(p0, adjList, n)
  IN  Append(p.steps, MSTStep(<<>>, NULL, p.edges, p.totalWeight))

\* no WithSteps variant has been called
NoSteps == [dijkstra |-> <<>>, kruskal |-> <<>>, prim |-> <<>>]

\* the last element of a list of snapshots
LastStep(steps) == steps[Len(steps)]

(***************************************************************************)
(* The run that compares each algorithm with its WithSteps variant: the    *)
(* caller builds the adjacency map and the edge list from the same edges,  *)
(* and calls dijkstra, dijkstraWithSteps, kruskal, kruskalWithSteps, prim  *)
(* and primWithSteps in turn, the last two from the same start vertex.     *)
(***************************************************************************)
DijkstraWithSteps ==
  /\ UNCHANGED <<notSteps, call>>
  /\ dj.pc = "done" /\ ws.dijkstra = <<>>
  /\ ws' = [ws EXCEPT !.dijkstra = dijkstraWithSteps(TheGraph, gin.start)]

KruskalWithSteps ==
  /\ UNCHANGED <<notSteps, call>>
  /\ kr.called /\ ws.kruskal = <<>>
  /\ ws' = [ws EXCEPT !.kruskal = kruskalWithSteps(mg.n, mg.edges)]

PrimWithSteps ==
  /\ UNCHANGED <<notSteps, call>>
  /\ pr.called /\ ws.prim = <<>>
  /\ ws' = [ws EXCEPT !.prim =
              primWithSteps(mg.n, edgesToAdjList(mg.edges), pr.start)]

\* the demo graph of the spanning-tree algorithms, from vertex 0
MstDemoGraphInput == [n |-> 5, edges |-> MstDemoEdges, start |-> 0]

InitSteps ==
  /\ InputIn(0 .. MaxW, {ScenarioInput, MstDemoGraphInput, NegEdgeInput,
                         NegCycleDemoInput})
  /\ mg = [n |-> gin.n, edges |-> gin.edges]
  /\ dj = [pc |-> "new"]
  /\ bf = NotCalled
  /\ fw = NotCalled
  /\ kr = NotCalled
  /\ pr = NotCalled
  /\ ws = NoSteps

NextSteps ==
  \/ DijkstraStart
  \/ DijkstraIterate
  \/ DijkstraWithSteps
  \/ ws.dijkstra # <<>> /\ Kruskal
  \/ KruskalWithSteps
  \/ ws.kruskal # <<>> /\ Prim(gin.start)
  \/ PrimWithSteps

(***************************************************************************)
(* getPath  (src/unnamed/part_003)                                         *)
(* The result is a record: found is false where the code returns null.     *)
(***************************************************************************)
GP_null == [found |-> FALSE, path |-> <<>>]

\* lines 153-160: the walk back from current along previous
RECURSIVE GP_walk(_, _, _, _)
GP_walk(previous, start, path, current) ==
  IF current = start
  THEN [found |-> TRUE, path |-> path]
  ELSE LET prev == previous[current]
       IN  IF prev = NULL
           THEN GP_null
           ELSE GP_walk(previous, start, <<prev>> \o path, prev)

\* getPath that gives up whenever end has no predecessor
getPath_noSelfCase(previous, start, end) ==
  IF previous[end] = NULL
  THEN GP_null
  ELSE GP_walk(previous, start, <<end>>, end)

\* getPath(previous, start, end)
getPath(previous, start, end) ==
  IF previous[end] = NULL /\ start # end
  THEN GP_null
  ELSE GP_walk(previous, start, <<end>>, end)

(***************************************************************************)
(* The route run: the caller runs dijkstra(graph, start), one pass of its  *)
(* loop at a time, and then asks getPath for the way to some vertex.       *)
(***************************************************************************)
GetPath(end) ==
  /\ UNCHANGED <<notGraph, gin, dj, bf, fw>>
  /\ dj.pc = "done"
  /\ call' = [op |-> "getPath", end |-> end,
              ret |-> getPath(dj.previous, gin.start, end)]

InitRoute ==
  /\ InputIn(0 .. MaxW, {ScenarioInput})
  /\ dj = [pc |-> "new"]
  /\ bf = NotCalled
  /\ fw = NotCalled

NextRoute ==
  \/ DijkstraStart
  \/ DijkstraIterate
  \/ \E end \in Vertices(gin.n) : GetPath(end)

(***************************************************************************)
(* findNodesAffectedByNegativeCycle  (src/src/graphs/floydWarshall.ts)     *)
(***************************************************************************)
\* lines 126-140: the pairs i, j that the triple loop adds
FW_affectedPairs(result, n) ==
  {p \in Vertices(n) \X Vertices(n) :
     \E k \in Vertices(n) :
       /\ result.distances[k][k] < 0
       /\ result.distances[p[1]][k] # Infinity
       /\ result.distances[k][p[2]] # Infinity}

\* findNodesAffectedByNegativeCycle(n, edges)
findNodesAffectedByNegativeCycle(n, edges) ==
  LET result == floydWarshall(n, edges)
  IN  IF ~result.hasNegativeCycle
      THEN {}
      ELSE UNION {{p[1], p[2]} : p \in FW_affectedPairs(result, n)}

(***************************************************************************)
(* findNegativeCycle  (src/src/graphs/bellmanFord.ts)                      *)
(* The result is a record: found is false where the code returns null.     *)
(***************************************************************************)
\* previous.get(x): undefined when x is not a key
FNC_get(previous, x) == IF x \in DOMAIN previous THEN previous[x] ELSE NULL

\* lines 134-143: the vertex v of the first edge that can still be relaxed,
\* looking from the i-th edge on (null if there is none)
RECURSIVE FNC_cycleVertex(_, _, _)
FNC_cycleVertex(distances, edges, i) ==
  IF i > Len(edges)
  THEN NULL
  ELSE IF BF_canRelax(distances, edges[i])
  THEN edges[i][2]
  ELSE FNC_cycleVertex(distances, edges, i + 1)

\* lines 154-156: current = previous.get(current) ?? current, times more
RECURSIVE FNC_back(_, _, _)
FNC_back(previous, current, times) ==
  IF times = 0
  THEN current
  ELSE LET prev == FNC_get(previous, current)
       IN  FNC_back(previous, IF prev = NULL THEN current ELSE prev, times - 1)

\* lines 162-167: the while loop that collects the cycle
RECURSIVE FNC_trace(_, _, _, _, _)
FNC_trace(previous, cycle, visited, next, current) ==
  IF next = current
  THEN cycle
  ELSE IF next \in visited
  THEN cycle
  ELSE FNC_trace(previous, Append(cycle, next), visited \cup {next},
                 FNC_get(previous, next), current)

\* array.reverse()
Reverse(seq) == [i \in 1 .. Len(seq) |-> seq[Len(seq) + 1 - i]]

\* findNegativeCycle(vertices, edges), for a list of at least one vertex
findNegativeCycle(vertices, edges) ==
  LET keys == {vertices[i] : i \in 1 .. Len(vertices)}
      b0 == [distances |-> [v \in keys |->
                              IF v = vertices[1] THEN 0 ELSE Infinity],
             previous |-> [v \in keys |-> NULL]]
      V == Len(vertices)
      b1 == BF_passes(b0, edges, 0, V)
      cycleVertex == FNC_cycleVertex(b1.distances, edges, 1)
  IN  IF cycleVertex = NULL
      THEN [found |-> FALSE, cycle |-> <<>>]
      ELSE LET current == FNC_back(b1.previous, cycleVertex, V)
               cycle == FNC_trace(b1.previous, <<current>>, {},
                                  FNC_get(b1.previous, current), current)
           IN  [found |-> TRUE, cycle |-> Reverse(Append(cycle, current))]

(***************************************************************************)
(* The diagnostic run on an edge list whose weights may be negative: the   *)
(* caller asks for the vertices affected by a negative cycle and for a     *)
(* negative cycle.                                                         *)
(***************************************************************************)
FindNodesAffected ==
  /\ UNCHANGED <<notGraph, graphVars>>
  /\ call.op # "findNodesAffectedByNegativeCycle"
  /\ call' = [op |-> "findNodesAffectedByNegativeCycle",
              ret |-> findNodesAffectedByNegativeCycle(gin.n, gin.edges)]

FindNegativeCycle ==
  /\ UNCHANGED <<notGraph, graphVars>>
  /\ call.op # "findNegativeCycle"
  /\ call' = [op |-> "findNegativeCycle",
              ret |-> findNegativeCycle(VertexList(gin.n), gin.edges)]

NextCycles ==
  \/ FindNodesAffected
  \/ FindNegativeCycle

(***************************************************************************)
(* LRUCacheWithTTL  (src/src/data-structures/lruCache.ts)                  *)
(* The values of the inner LRUCache are entries [value, expiry]; now is    *)
(* the value of Date.now() at the call.                                    *)
(***************************************************************************)
\* constructor(capacity, defaultTTL = Infinity)
LRUCacheWithTTL(capacity, defaultTTL) ==
  [cache |-> LRUCache(capacity), defaultTTL |-> defaultTTL]

\* get that treats an entry as stale from the instant of its expiry on
TTL_get_staleAtExpiry(t, key, clock) ==
  LET r == LRU_get(t.cache, key)
  IN  IF ~LRU_has(t.cache, key)
      THEN [t |-> [t EXCEPT !.cache = r.c], ret |-> NULL]
      ELSE IF clock >= r.ret.expiry
      THEN [t |-> [t EXCEPT !.cache = LRU_delete(r.c, key).c], ret |-> NULL]
      ELSE [t |-> [t EXCEPT !.cache = r.c], ret |-> r.ret.value]

\* get(key): the object afterwards and the returned value; the entry that
\* the inner get returns is undefined exactly when the map has no such key
TTL_get(t, key, clock) ==
  LET r == LRU_get(t.cache, key)
  IN  IF ~LRU_has(t.cache, key)
      THEN [t |-> [t EXCEPT !.cache = r.c], ret |-> NULL]
      ELSE IF clock > r.ret.expiry
      THEN [t |-> [t EXCEPT !.cache = LRU_delete(r.c, key).c], ret |-> NULL]
      ELSE [t |-> [t EXCEPT !.cache = r.c], ret |-> r.ret.value]

\* put(key, value, ttl)
TTL_put(t, key, value, d, clock) ==
  [t EXCEPT !.cache =
     LRU_put(@, key, [value |-> value, expiry |-> Plus(clock, d)])]

\* has(key): the object afterwards and the returned boolean
TTL_has(t, key, clock) ==
  LET r == LRU_get(t.cache, key)
  IN  IF ~LRU_has(t.cache, key)
      THEN [t |-> [t EXCEPT !.cache = r.c], ret |-> FALSE]
      ELSE IF clock > r.ret.expiry
      THEN [t |-> [t EXCEPT !.cache = LRU_delete(r.c, key).c], ret |-> FALSE]
      ELSE [t |-> [t EXCEPT !.cache = r.c], ret |-> TRUE]

(***************************************************************************)
(* The TTL run.  ttlGhost[k] records the last put of key k while k is in   *)
(* the inner cache: the time of the put, its ttl and its value.            *)
(***************************************************************************)
TtlKeys == 1 .. MaxTtlKeys

TTLs == (0 .. MaxTTL) \cup {Infinity}

NoPut == [at |-> 0, d |-> 0, value |-> NULL]

TtlFresh == [k \in Keys |-> NoPut]

\* the records of the keys that are still cached
TtlKept(g, t) == [k \in Keys |-> IF k \in t.cache.cache THEN g[k] ELSE NoPut]

TtlGet(k) ==
  LET r == TTL_get(ttl, k, now)
  IN  /\ UNCHANGED <<notTTL, now>>
      /\ ttl' = r.t
      /\ ttlGhost' = TtlKept(ttlGhost, r.t)
      /\ call' = [op |-> "get", key |-> k, ret |-> r.ret]

TtlHas(k) ==
  LET r == TTL_has(ttl, k, now)
  IN  /\ UNCHANGED <<notTTL, now>>
      /\ ttl' = r.t
      /\ ttlGhost' = TtlKept(ttlGhost, r.t)
      /\ call' = [op |-> "has", key |-> k, ret |-> r.ret]

\* put(key, value, ttl), and put(key, value) when d is the default
TtlPut(k, v, d) ==
  LET t == TTL_put(ttl, k, v, d, now)
  IN  /\ UNCHANGED <<notTTL, now>>
      /\ ttl' = t
      /\ ttlGhost' = TtlKept([ttlGhost EXCEPT
                                ![k] = [at |-> now, d |-> d, value |-> v]], t)
      /\ call' = [op |-> "put", key |-> k, ret |-> NULL]

\* time passes
Tick ==
  /\ UNCHANGED <<notTTL, ttl, ttlGhost>>
  /\ now < MaxTime
  /\ now' = now + 1
  /\ call' = [op |-> "tick", key |-> NULL, ret |-> NULL]

InitTTL ==
  /\ ttl \in {LRUCacheWithTTL(cap, d) : cap \in 1 .. MaxTtlCap, d \in TTLs}
  /\ now = 0
  /\ ttlGhost = TtlFresh

NextTTL ==
  \/ \E k \in TtlKeys : TtlGet(k)
  \/ \E k \in TtlKeys : TtlHas(k)
  \/ \E k \in TtlKeys, v \in Vals, d \in TTLs \cup {ttl.defaultTTL} :
       TtlPut(k, v, d)
  \/ Tick

(***************************************************************************)
(* UnionFindWithRollback: union by rank without path compression, with a   *)
(* history of the links made.  A history entry holds the root that was     *)
(* attached (x), its parent before (px) and its rank before (rankX).       *)
(***************************************************************************)
\* constructor(n)
UnionFindWithRollback(n) ==
  [parent |-> [i \in 0 .. n - 1 |-> i],
   rank |-> [i \in 0 .. n - 1 |-> 0],
   history |-> <<>>]

\* find(x)
RECURSIVE RB_find(_, _)
RB_find(u, x) ==
  IF u.parent[x] # x THEN RB_find(u, u.parent[x]) ELSE x

\* RB_union that writes the history entry of the root that stays a root
RB_union_historyOfWinner(u, x, y) ==
  LET rootX == RB_find(u, x)
      rootY == RB_find(u, y)
      entry(r) == [x |-> r, px |-> u.parent[r], rankX |-> u.rank[r]]
  IN  IF rootX = rootY THEN [u |-> u, ret |-> FALSE]
      ELSE IF u.rank[rootX] < u.rank[rootY]
      THEN [u |-> [u EXCEPT !.history = Append(@, entry(rootY)),
                            !.parent[rootX] = rootY],
            ret |-> TRUE]
      ELSE IF u.rank[rootX] > u.rank[rootY]
      THEN [u |-> [u EXCEPT !.history = Append(@, entry(rootX)),
                            !.parent[rootY] = rootX],
            ret |-> TRUE]
      ELSE [u |-> [u EXCEPT !.history = Append(@, entry(rootX)),
                            !.parent[rootY] = rootX,
                            !.rank[rootX] = @ + 1],
            ret |-> TRUE]

\* union(x, y)
RB_union(u, x, y) ==
  LET rootX == RB_find(u, x)
      rootY == RB_find(u, y)
      entry(r) == [x |-> r, px |-> u.parent[r], rankX |-> u.rank[r]]
  IN  IF rootX = rootY THEN [u |-> u, ret |-> FALSE]
      ELSE IF u.rank[rootX] < u.rank[rootY]
      THEN [u |-> [u EXCEPT !.history = Append(@, entry(rootX)),
                            !.parent[rootX] = rootY],
            ret |-> TRUE]
      ELSE IF u.rank[rootX] > u.rank[rootY]
      THEN [u |-> [u EXCEPT !.history = Append(@, entry(rootY)),
                            !.parent[rootY] = rootX],
            ret |-> TRUE]
      ELSE [u |-> [u EXCEPT !.history = Append(@, entry(rootY)),
                            !.parent[rootY] = rootX,
                            !.rank[rootX] = @ + 1],
            ret |-> TRUE]

\* save()
RB_save(u) == Len(u.history)

\* rollback(checkpoint)
RECURSIVE RB_rollback(_, _)
RB_rollback(u, checkpoint) ==
  IF Len(u.history) > checkpoint
  THEN LET e == u.history[Len(u.history)]
       IN  RB_rollback([u EXCEPT !.history = SubSeq(@, 1, Len(@) - 1),
                                 !.parent[e.x] = e.px,
                                 !.rank[e.x] = e.rankX],
                       checkpoint)
  ELSE u

RbElems == DOMAIN rb.parent

RbFind(x) ==
  /\ UNCHANGED notRollback
  /\ UNCHANGED <<rb, rbGhost>>
  /\ call' = [op |-> "find", x |-> x, ret |-> RB_find(rb, x)]

RbUnion(x, y) ==
  LET r == RB_union(rb, x, y)
  IN  /\ UNCHANGED notRollback
      /\ rb' = r.u
      /\ UNCHANGED rbGhost
      /\ call' = [op |-> "union", x |-> x, y |-> y, ret |-> r.ret]

\* c = save(): the ghost keeps c with the parent array and the roots
RbSave ==
  LET c == RB_save(rb)
  IN  /\ Cardinality(rbGhost) < MaxSaves
      /\ UNCHANGED notRollback
      /\ UNCHANGED rb
      /\ rbGhost' = rbGhost \cup
           {[c |-> c, parent |-> rb.parent,
             roots |-> [x \in RbElems |-> RB_find(rb, x)]]}
      /\ call' = [op |-> "save", ret |-> c]

\* rollback(checkpoint): a rollback that goes below a checkpoint ends the
\* stretch of unions that followed that checkpoint
RbRollback(checkpoint) ==
  /\ UNCHANGED notRollback
  /\ rb' = RB_rollback(rb, checkpoint)
  /\ rbGhost' = IF Len(rb.history) > checkpoint
                THEN {g \in rbGhost : g.c <= checkpoint}
                ELSE rbGhost
  /\ call' = [op |-> "rollback", checkpoint |-> checkpoint,
              undone |-> Len(rb.history) - Len(rb'.history)]

InitRollback ==
  /\ \E n \in 1 .. MaxElems : rb = UnionFindWithRollback(n)
  /\ rbGhost = {}

NextRollback ==
  \/ \E x \in RbElems : RbFind(x)
  \/ \E x, y \in RbElems : RbUnion(x, y)
  \/ RbSave
  \/ \E checkpoint \in 0 .. Len(rb.history) : RbRollback(checkpoint)

(***************************************************************************)
(* The specifications.  A structure that a specification does not          *)
(* exercise keeps its freshly constructed state.                           *)
(***************************************************************************)
IdleLRU == lru = LRUCache(1) /\ lruGhost = LruFresh
IdleLFU == lfu = LFUCache(1) /\ lfuGhost = LfuFresh
IdleSeg ==
  /\ seg = LazySegmentTree([i \in {0} |-> 0])
  /\ segGhost = [arr |-> [i \in {0} |-> 0], updates |-> 0]
IdleUF == uf = UnionFind(1) /\ ufGhost = {{0}}
IdleGraph ==
  /\ gin = IdleInput
  /\ dj = [pc |-> "new"]
  /\ bf = NotCalled
  /\ fw = NotCalled
IdleMST ==
  /\ mg = [n |-> 1, edges |-> <<>>]
  /\ kr = NotCalled
  /\ pr = NotCalled
IdleAStar ==
  /\ ain = [grid |-> GridOf(<< <<0>> >>), start |-> <<0, 0>>, end |-> <<0, 0>>]
  /\ ast = [pc |-> "new"]
IdleFen ==
  /\ fen = FenwickTree(<<0>>)
  /\ fenGhost = [arr |-> [i \in {0} |-> 0], updates |-> 0]
IdlePointSeg ==
  /\ pst = createSumSegmentTree(<<0>>)
  /\ pstGhost = [arr |-> [i \in {0} |-> 0], initial |-> [i \in {0} |-> 0]]
IdleSteps == ws = NoSteps
IdleTTL ==
  /\ ttl = LRUCacheWithTTL(1, Infinity)
  /\ now = 0
  /\ ttlGhost = TtlFresh
IdleRollback ==
  /\ rb = UnionFindWithRollback(1)
  /\ rbGhost = {}
\* the initial states: Live constructs the structures of the groups exercised
Start(Live, groups) ==
  /\ call = NoCall
  /\ Live
  /\ "lru" \in groups \/ IdleLRU
  /\ "lfu" \in groups \/ IdleLFU
  /\ "seg" \in groups \/ IdleSeg
  /\ "uf" \in groups \/ IdleUF
  /\ "graph" \in groups \/ IdleGraph
  /\ "mst" \in groups \/ IdleMST
  /\ "astar" \in groups \/ IdleAStar
  /\ "fen" \in groups \/ IdleFen
  /\ "pst" \in groups \/ IdlePointSeg
  /\ "steps" \in groups \/ IdleSteps
  /\ "ttl" \in groups \/ IdleTTL
  /\ "rb" \in groups \/ IdleRollback

StartLRU == Start(InitLRU, {"lru"})
StartLFU == Start(InitLFU, {"lfu"})
StartSeg == Start(InitSeg, {"seg"})
StartUF == Start(InitUF, {"uf"})
StartPaths == Start(InitPaths, {"graph"})
StartSigned == Start(InitSigned, {"graph"})
StartMST == Start(InitMST, {"mst"})
StartAStar == Start(InitAStar, {"astar"})
StartFen == Start(InitFen, {"fen"})
StartPointSeg == Start(InitPointSeg, {"pst"})
StartNonPositive == Start(InitNonPositive, {"lru", "lfu"})
StartMisuse == Start(InitMisuse, {"uf", "fen", "pst"})

\* a program that constructs both caches and goes on to use one of them:
\* the two objects share no state, and a call on one of them is made while
\* the other is as constructed
InitCaches == InitLRU /\ InitLFU

NextCaches ==
  \/ lfu = LFUCache(lfu.capacity) /\ NextLRU
  \/ lru = LRUCache(lru.capacity) /\ NextLFU

StartCaches == Start(InitCaches, {"lru", "lfu"})
StartSteps == Start(InitSteps, {"graph", "mst", "steps"})
StartRoute == Start(InitRoute, {"graph"})
StartCycles == Start(InitSigned, {"graph"})
StartFrequencies == Start(InitFen, {"fen"})
StartTTL == Start(InitTTL, {"ttl"})
StartRollback == Start(InitRollback, {"rb"})


SpecLRU == StartLRU /\ [][NextLRU]_vars
SpecLFU == StartLFU /\ [][NextLFU]_vars
SpecSeg == StartSeg /\ [][NextSeg]_vars
SpecUF == StartUF /\ [][NextUF]_vars
SpecPaths == StartPaths /\ [][NextPaths]_vars
SpecSigned == StartSigned /\ [][NextSigned]_vars
SpecMST == StartMST /\ [][NextMST]_vars
SpecAStar == StartAStar /\ [][NextAStar]_vars
SpecFen == StartFen /\ [][NextFen]_vars
SpecPointSeg == StartPointSeg /\ [][NextPointSeg]_vars
SpecNonPositive == StartNonPositive /\ [][NextNonPositive]_vars
SpecMisuse == StartMisuse /\ [][NextMisuse]_vars
SpecCaches == StartCaches /\ [][NextCaches]_vars
SpecSteps == StartSteps /\ [][NextSteps]_vars
SpecRoute == StartRoute /\ [][NextRoute]_vars
SpecCycles == StartCycles /\ [][NextCycles]_vars
SpecFrequencies == StartFrequencies /\ [][NextFrequencies]_vars
SpecTTL == StartTTL /\ [][NextTTL]_vars
SpecRollback == StartRollback /\ [][NextRollback]_vars

(***************************************************************************)
(* Properties of LRUCache                                                  *)
(***************************************************************************)
\* the cached key whose most recent successful get or put is oldest
LruOldest(c, g) ==
  CHOOSE k \in c.cache : \A j \in c.cache : g.touched[k] <= g.touched[j]

\* C1: a put of a key that is not cached, made while size() = capacity,
\* removes exactly the cached key whose most recent successful get or put is
\* oldest; every other cached key stays cached with its value and the new
\* key is cached with the value put.
C1_LruEvictsLeastRecentlyTouched ==
  [][(/\ call'.op = "put"
      /\ ~LRU_has(lru, call'.key)
      /\ LRU_size(lru) = lru.capacity)
     => LET victim == LruOldest(lru, lruGhost)
        IN  /\ lru'.cache = (lru.cache \ {victim}) \cup {call'.key}
            /\ \A k \in lru.cache \ {victim} :
                 LRU_get(lru', k).ret = LRU_get(lru, k).ret
            /\ LRU_get(lru', call'.key).ret = call'.val
            /\ LRU_size(lru') = lru.capacity]_vars

\* capacity 3, put 1, 2, 3, get 1, put 4: key 2 is gone, {1, 3, 4} remain
C1_Witness ==
  /\ lru.capacity = 3
  /\ call.op = "put" /\ call.key = 4 /\ ~call.present /\ call.sizeBefore = 3
  /\ lruGhost.touched = [k \in Keys |-> CASE k = 1 -> 2 [] k = 3 -> 1
                                           [] k = 4 -> 3 [] OTHER -> 0]
  /\ lru.cache = {1, 3, 4}
  /\ LRU_keys(lru) = <<4, 1, 3>>

(***************************************************************************)
(* Properties of LFUCache                                                  *)
(***************************************************************************)
\* the cached key of smallest frequency and, among those, touched longest ago
LfuVictim(c, g) ==
  CHOOSE k \in c.cache :
    \A j \in c.cache :
      \/ g.uses[k] < g.uses[j]
      \/ g.uses[k] = g.uses[j] /\ g.touched[k] <= g.touched[j]

\* C2: a put of a key that is not cached, made while size() = capacity,
\* evicts exactly the cached key of smallest frequency (1 + the successful
\* get and put-update calls since its insertion) and, among the keys of
\* that frequency, the one touched least recently.
C2_LfuEvictsLeastFrequent ==
  [][(/\ call'.op = "put"
      /\ ~LFU_has(lfu, call'.key)
      /\ LFU_size(lfu) = lfu.capacity)
     => /\ lfu'.cache = (lfu.cache \ {LfuVictim(lfu, lfuGhost)}) \cup {call'.key}
        /\ \A k \in lfu.cache : lfu.frequency[k] = lfuGhost.uses[k]]_vars

\* capacity 3, put 1, 2, 3, get 1 twice, get 2 once, put 4: key 3 is evicted
C2_Witness ==
  /\ lfu.capacity = 3
  /\ call.op = "put" /\ call.key = 4 /\ ~call.present /\ call.sizeBefore = 3
  /\ lfuGhost.touched = [k \in Keys |-> CASE k = 1 -> 1 [] k = 2 -> 2
                                           [] k = 4 -> 3 [] OTHER -> 0]
  /\ lfuGhost.uses = [k \in Keys |-> CASE k = 1 -> 3 [] k = 2 -> 2
                                        [] k = 4 -> 1 [] OTHER -> 0]
  /\ lfu.cache = {1, 2, 4}

(***************************************************************************)
(* Properties of LazySegmentTree                                           *)
(***************************************************************************)
\* C3: every query(l, r) returns the sum over [l, r] of the plain array on
\* which each rangeUpdate was applied element by element; this holds for
\* the query just made and for every query that could be made next.
C3_LazyQueryEqualsPlainSum ==
  /\ call.op = "query" => call.ret = PlainSum(segGhost.arr, call.l, call.r)
  /\ \A l \in 0 .. seg.n - 1 : \A r \in l .. seg.n - 1 :
       LST_query(seg, l, r).ret = PlainSum(segGhost.arr, l, r)

\* a query over a partial range made after overlapping range updates, with a
\* pending lazy value still below the root
C3_Witness ==
  /\ call.op = "query" /\ call.l < call.r /\ call.r - call.l + 1 < seg.n
  /\ segGhost.updates >= 2
  /\ call.ret # 0
  /\ \E i \in 2 .. 4 * seg.n - 1 : seg.lazy[i] # 0
  /\ \E i, j \in 0 .. seg.n - 1 : segGhost.arr[i] # segGhost.arr[j]

(***************************************************************************)
(* Properties of UnionFind                                                 *)
(***************************************************************************)
\* what connected(x, y) returns in the current state
Conn(x, y) == UF_connected(uf, x, y).ret

\* x and y are linked by a chain of the union(a, b) calls made so far
Linked(x, y) == \E c \in ufGhost : x \in c /\ y \in c

\* the elements that are their own parent
Roots(u) == {x \in Elems(u) : u.parent[x] = x}

\* C4: connected is reflexive, symmetric and transitive, and connected(x, y)
\* is true exactly when x and y are linked by a chain of union calls.
C4_ConnectedIsGeneratedEquivalence ==
  /\ \A x \in Elems(uf) : Conn(x, x)
  /\ \A x, y \in Elems(uf) : Conn(x, y) => Conn(y, x)
  /\ \A x, y, z \in Elems(uf) : Conn(x, y) /\ Conn(y, z) => Conn(x, z)
  /\ \A x, y \in Elems(uf) : Conn(x, y) <=> Linked(x, y)
  /\ call.op = "connected" => call.ret = Linked(call.x, call.y)

\* connected(x, y) returned true for two elements never passed to the same
\* union call, joined by a chain through a third, and false for another pair
C4_Witness ==
  /\ call.op = "connected" /\ call.ret /\ call.x # call.y
  /\ uf.parent[call.x] # call.y /\ uf.parent[call.y] # call.x
  /\ Cardinality(ufGhost) = 2
  /\ \E x, y \in Elems(uf) : ~Conn(x, y)

\* C5: getCount() starts at n; union(x, y) returns true exactly when x and y
\* were in different sets before the call, and then getCount() drops by
\* exactly 1; when union returns false getCount() is unchanged; getCount()
\* always equals the number of disjoint sets (roots).
C5_CountTracksSets ==
  /\ UF_getCount(uf) = Cardinality(Elems(uf))
  /\ [][call'.op = "union" =>
          /\ call'.ret = ~Linked(call'.x, call'.y)
          /\ call'.ret => UF_getCount(uf') = UF_getCount(uf) - 1
          /\ ~call'.ret => UF_getCount(uf') = UF_getCount(uf)]_vars
  /\ [](/\ UF_getCount(uf) = Cardinality(Roots(uf))
        /\ UF_getCount(uf) = Cardinality(ufGhost))

\* a union of two distinct, already connected elements returned false after
\* two unions that returned true
C5_Witness ==
  /\ call.op = "union" /\ ~call.ret /\ call.x # call.y
  /\ Cardinality(Elems(uf)) = 4
  /\ UF_getCount(uf) = 2

(***************************************************************************)
(* Properties of the shortest-path algorithms                              *)
(***************************************************************************)
\* C6: on a graph without negative weights dijkstra(graph, s).distances and
\* bellmanFord(keys, graphToEdges(graph), s).distances give every vertex the
\* same distance (Infinity when unreachable); on the scenario graph both
\* give {0:0, 1:3, 2:1, 3:4}.
C6_DijkstraAgreesWithBellmanFord ==
  (dj.pc = "done" /\ bf.called) =>
    /\ DOMAIN dj.distances = DOMAIN bf.distances
    /\ \A v \in Vertices(gin.n) : dj.distances[v] = bf.distances[v]
    /\ gin = ScenarioInput =>
         dj.distances = [v \in Vertices(4) |->
                           CASE v = 0 -> 0 [] v = 1 -> 3 [] v = 2 -> 1 [] v = 3 -> 4]

\* both algorithms have run on the scenario graph from source 0
C6_Witness ==
  /\ gin = ScenarioInput
  /\ dj.pc = "done" /\ bf.called
  /\ bf.distances[1] = 3 /\ bf.distances[3] = 4

\* C7: with non-negative weights floydWarshall(n, edges).distances[i][j]
\* equals dijkstra(graph, i).distances.get(j) for every i and j, where graph
\* holds the same edges (the run's start vertex is i).
C7_FloydWarshallAgreesWithDijkstra ==
  (dj.pc = "done" /\ fw.called) =>
    \A j \in Vertices(gin.n) :
      fw.distances[gin.start][j] = dj.distances[j]

\* the smallest weight of an edge from u to v of the input (Infinity if none)
EdgeWeight(u, v) ==
  LET wts == {gin.edges[i][3] : i \in {k \in 1 .. Len(gin.edges) :
                 gin.edges[k][1] = u /\ gin.edges[k][2] = v}}
  IN  IF wts = {} THEN Infinity ELSE CHOOSE w \in wts : \A x \in wts : w <= x

\* the sequences of distinct vertices: p[1] -> p[2] -> ... -> p[1]
SimpleCycles ==
  {p \in SeqsUpTo(Vertices(gin.n), gin.n) :
     /\ p # <<>>
     /\ \A i, j \in 1 .. Len(p) : i # j => p[i] # p[j]
     /\ \A i \in 1 .. Len(p) : EdgeWeight(p[i], p[(i % Len(p)) + 1]) # Infinity}

RECURSIVE CycleWeightFrom(_, _)
CycleWeightFrom(p, i) ==
  IF i > Len(p) THEN 0
  ELSE EdgeWeight(p[i], p[(i % Len(p)) + 1]) + CycleWeightFrom(p, i + 1)

NegativeCycles == {p \in SimpleCycles : CycleWeightFrom(p, 1) < 0}

\* the vertices that a path of the input leads to from the set S
RECURSIVE ReachableFrom(_, _)
ReachableFrom(S, fuel) ==
  LET T == S \cup {v \in Vertices(gin.n) :
                    \E u \in S : EdgeWeight(u, v) # Infinity}
  IN  IF fuel = 0 \/ T = S THEN S ELSE ReachableFrom(T, fuel - 1)

Reachable(s) == ReachableFrom({s}, gin.n)

\* C8: bellmanFord returns hasNegativeCycle = true exactly when the graph
\* has a cycle of negative total weight that is reachable from start; the
\* demo graph and the 4-cycle summing to -1 are flagged, the graph with
\* negative edges and no negative cycle is not.
C8_BellmanFordFlagsReachableNegativeCycle ==
  bf.called =>
    /\ bf.hasNegativeCycle =
         (\E p \in NegativeCycles : p[1] \in Reachable(gin.start))
    /\ gin \in {NegCycleDemoInput, FourCycleInput} => bf.hasNegativeCycle
    /\ gin = NegEdgeInput => ~bf.hasNegativeCycle

\* the 4-cycle of negative total weight was flagged
C8_Witness ==
  /\ gin = FourCycleInput
  /\ bf.called /\ bf.hasNegativeCycle

\* C9: floydWarshall returns hasNegativeCycle = true exactly when the edge
\* list contains a cycle of negative total weight, and then
\* distances[i][i] < 0 for every vertex i on such a cycle; without a
\* negative cycle every distances[i][i] is 0.
C9_FloydWarshallFlagsNegativeCycle ==
  fw.called =>
    /\ fw.hasNegativeCycle = (NegativeCycles # {})
    /\ \A p \in NegativeCycles : \A i \in 1 .. Len(p) :
         fw.distances[p[i]][p[i]] < 0
    /\ NegativeCycles = {} =>
         \A i \in Vertices(gin.n) : fw.distances[i][i] = 0

(***************************************************************************)
(* Properties of kruskal and prim                                          *)
(***************************************************************************)
\* the vertices joined to the set S by edges taken in either direction
RECURSIVE JoinedTo(_, _, _)
JoinedTo(S, es, fuel) ==
  LET T == S \cup {v \in Vertices(mg.n) :
                    \E i \in 1 .. Len(es) :
                      \/ es[i][1] \in S /\ es[i][2] = v
                      \/ es[i][2] \in S /\ es[i][1] = v}
  IN  IF fuel = 0 \/ T = S THEN S ELSE JoinedTo(T, es, fuel - 1)

\* the edges es join all the vertices 0 .. n-1
Spans(es) == JoinedTo({0}, es, mg.n) = Vertices(mg.n)

RECURSIVE WeightOf(_)
WeightOf(es) ==
  IF es = <<>> THEN 0 ELSE es[1][3] + WeightOf(Tail(es))

\* the edges of the input at the positions I, in their order
EdgesAt(I) == SelectSeq([i \in 1 .. Len(mg.edges) |->
                           IF i \in I THEN mg.edges[i] ELSE <<>>],
                        LAMBDA e : e # <<>>)

\* the spanning trees of the input: n-1 of its edges that join all vertices
SpanningTrees ==
  {I \in SUBSET (1 .. Len(mg.edges)) :
     Cardinality(I) = mg.n - 1 /\ Spans(EdgesAt(I))}

IsMinimumWeight(w) ==
  /\ \E I \in SpanningTrees : WeightOf(EdgesAt(I)) = w
  /\ \A I \in SpanningTrees : WeightOf(EdgesAt(I)) >= w

\* res.edges are n-1 edges of the input (in either direction) that join
\* all vertices, and res.totalWeight is their weight
IsSpanningTreeResult(res) ==
  /\ Len(res.edges) = mg.n - 1
  /\ Spans(res.edges)
  /\ res.totalWeight = WeightOf(res.edges)
  /\ \A i \in 1 .. Len(res.edges) :
       \E j \in 1 .. Len(mg.edges) :
         /\ mg.edges[j][3] = res.edges[i][3]
         /\ {mg.edges[j][1], mg.edges[j][2]}
              = {res.edges[i][1], res.edges[i][2]}

\* C10: on a connected undirected weighted graph, for every start vertex,
\* kruskal and prim return the same total weight, each returns n-1 edges
\* that form a spanning tree, and the total is the minimum over all
\* spanning trees of the graph.
C10_KruskalAndPrimAgreeOnMinimum ==
  Spans(mg.edges) =>
    /\ kr.called =>
         IsSpanningTreeResult(kr) /\ IsMinimumWeight(kr.totalWeight)
    /\ pr.called =>
         /\ IsSpanningTreeResult(pr)
         /\ IsMinimumWeight(pr.totalWeight)
         /\ pr.totalWeight = kr.totalWeight

\* both have run on the demo graph and returned total weight 16
C10_Witness ==
  /\ mg = MstDemoInput
  /\ kr.called /\ pr.called
  /\ Spans(mg.edges)
  /\ kr.totalWeight = 16 /\ pr.totalWeight = 16
  /\ kr.edges # pr.edges

\* the sets of vertices joined with one another by the edges es
ComponentsOf(es) == {JoinedTo({v}, es, mg.n) : v \in Vertices(mg.n)}

\* es contains no cycle: each of its edges joins two components
IsForest(es) == Cardinality(ComponentsOf(es)) = mg.n - Len(es)

\* every edge of es is an edge of the input, in either direction
FromInput(es) ==
  \A i \in 1 .. Len(es) :
    \E j \in 1 .. Len(mg.edges) :
      /\ mg.edges[j][3] = es[i][3]
      /\ {mg.edges[j][1], mg.edges[j][2]} = {es[i][1], es[i][2]}

IsForestResult(res) ==
  /\ FromInput(res.edges)
  /\ IsForest(res.edges)
  /\ Len(res.edges) <= mg.n - 1
  /\ (Len(res.edges) = mg.n - 1) <=> Spans(mg.edges)

\* C11: kruskal and prim return input edges that contain no cycle, n-1 of
\* them exactly when the graph is connected and fewer than n-1 when it is
\* disconnected.
C11_ForestWithFewerEdgesWhenDisconnected ==
  /\ kr.called => IsForestResult(kr)
  /\ pr.called => IsForestResult(pr)

\* both have run on a disconnected graph and returned a partial forest
C11_Witness ==
  /\ kr.called /\ pr.called
  /\ ~Spans(mg.edges)
  /\ mg.n = 3
  /\ Len(kr.edges) = 1 /\ Len(pr.edges) = 1

(***************************************************************************)
(* Properties of aStar                                                     *)
(***************************************************************************)
\* two cells one move apart
Adjacent(x, y) == Abs(x[1] - y[1]) + Abs(x[2] - y[2]) = 1

\* breadth-first search: the number of moves from the set S, d moves from
\* start, to the cell end over passable cells (Infinity if there is no way)
RECURSIVE BfsFrom(_, _, _, _)
BfsFrom(grid, S, d, end) ==
  LET T == S \cup {y \in Passable(grid) : \E x \in S : Adjacent(x, y)}
  IN  IF end \in S THEN d
      ELSE IF T = S THEN Infinity
      ELSE BfsFrom(grid, T, d + 1, end)

BfsDistance == BfsFrom(ain.grid, {ain.start}, 0, ain.end)

\* C12: aStar with manhattanDistance between passable cells returns null
\* exactly when end is not reachable from start; otherwise its path begins
\* at start, ends at end, moves between 4-adjacent passable cells, and its
\* distance (path length - 1) is the breadth-first shortest-path length.
C12_AStarFindsShortestPath ==
  ast.pc = "done" =>
    /\ ~ast.result.found <=> BfsDistance = Infinity
    /\ ast.result.found =>
         LET path == ast.result.path
         IN  /\ path[1] = ain.start
             /\ path[Len(path)] = ain.end
             /\ \A i \in 1 .. Len(path) : path[i] \in Passable(ain.grid)
             /\ \A i \in 1 .. Len(path) - 1 : Adjacent(path[i], path[i + 1])
             /\ ast.result.distance = Len(path) - 1
             /\ ast.result.distance = BfsDistance

\* the demo call has returned a path of 8 moves around the walls
C12_Witness ==
  /\ ain = [grid |-> AStarDemoGrid, start |-> <<0, 0>>, end |-> <<4, 4>>]
  /\ ast.pc = "done"
  /\ ast.result.found
  /\ ast.result.distance = 8

(***************************************************************************)
(* Properties of FenwickTree                                               *)
(***************************************************************************)
\* C13: after any sequence of update(i, delta) calls, query(l, r) equals
\* the sum of the elements l..r of the plain array that received the same
\* additions, for all 0 <= l <= r < n, and prefixSum(i) equals the sum of
\* the elements 0..i.
C13_FenwickQueryEqualsPlainSum ==
  /\ call.op = "query" => call.ret = PlainSum(fenGhost.arr, call.l, call.r)
  /\ call.op = "prefixSum" => call.ret = PlainSum(fenGhost.arr, 0, call.r)
  /\ \A l \in 0 .. fen.n - 1 : \A r \in l .. fen.n - 1 :
       FEN_query(fen, l, r) = PlainSum(fenGhost.arr, l, r)
  /\ \A i \in 0 .. fen.n - 1 :
       FEN_prefixSum(fen, i) = PlainSum(fenGhost.arr, 0, i)

\* a query over an inner range of a 4-element tree after several updates
C13_Witness ==
  /\ call.op = "query" /\ call.l = 1 /\ call.r = 2
  /\ fen.n = 4
  /\ fenGhost.updates >= 2
  /\ call.ret # 0
  /\ fenGhost.arr[1] # fenGhost.arr[2]

(***************************************************************************)
(* Properties of SegmentTree                                               *)
(***************************************************************************)
\* the sum, minimum or maximum of arr[l], ..., arr[r], element by element
RECURSIVE PlainFold(_, _, _, _)
PlainFold(kind, arr, l, r) ==
  IF l = r THEN arr[l]
  ELSE LET rest == PlainFold(kind, arr, l + 1, r)
       IN  IF kind = "sum" THEN arr[l] + rest
           ELSE IF kind = "min" THEN (IF arr[l] < rest THEN arr[l] ELSE rest)
           ELSE (IF arr[l] > rest THEN arr[l] ELSE rest)

\* C14: for a tree made by createSumSegmentTree, createMinSegmentTree or
\* createMaxSegmentTree, after any sequence of update(i, value) calls
\* query(l, r) equals the sum, minimum or maximum recomputed over the
\* elements l..r of the plain array, for all 0 <= l <= r < n.
C14_SegmentTreeQueryEqualsPlainFold ==
  /\ call.op = "query" =>
       call.ret = PlainFold(pst.kind, pstGhost.arr, call.l, call.r)
  /\ \A l \in 0 .. pst.n - 1 : \A r \in l .. pst.n - 1 :
       ST_query(pst, l, r) = PlainFold(pst.kind, pstGhost.arr, l, r)

\* a min query over a range that straddles the two halves of the tree,
\* after updates raised both elements of that range
C14_Witness ==
  /\ call.op = "query" /\ call.l = 1 /\ call.r = 2
  /\ pst.n = 3 /\ pst.kind = "min"
  /\ call.ret = 1
  /\ pstGhost.arr[0] = -1
  /\ pstGhost.initial[1] < 1 /\ pstGhost.initial[2] < 1

(***************************************************************************)
(* The list and the map of LRUCache                                        *)
(***************************************************************************)
\* the walk from tail.prev back to the head sentinel
RECURSIVE LRU_keysBackFrom(_, _, _)
LRU_keysBackFrom(c, node, fuel) ==
  IF node = NULL \/ node = HEAD \/ fuel = 0
  THEN <<>>
  ELSE LRU_keysBackFrom(c, c.prev[node], fuel - 1) \o <<node>>

\* C15: after every get, put, has, delete and clear, keys() contains each
\* key for which has(key) is true exactly once and no other key, size()
\* equals its length, and it runs from the key most recently touched by a
\* successful get or put to the key least recently touched.
C15_LruListAndMapInSync ==
  LET keys == LRU_keys(lru)
  IN  /\ \A k \in Keys :
           Cardinality({i \in 1 .. Len(keys) : keys[i] = k})
             = IF LRU_has(lru, k) THEN 1 ELSE 0
      /\ \A i \in 1 .. Len(keys) : keys[i] \in Keys
      /\ LRU_size(lru) = Len(keys)
      /\ \A i, j \in 1 .. Len(keys) :
           i < j => lruGhost.touched[keys[i]] > lruGhost.touched[keys[j]]
      /\ LRU_keysBackFrom(lru, lru.prev[TAIL], NumKeys + 2) = keys

\* a get has just moved the least recently used of three keys to the front
C15_Witness ==
  /\ call.op = "get" /\ call.ret # NULL
  /\ LRU_size(lru) = 3
  /\ LRU_keys(lru)[1] = call.key
  /\ LRU_keys(lru) = <<1, 3, 2>>

(***************************************************************************)
(* Caches with a capacity that is not positive                             *)
(***************************************************************************)
\* C16: a cache given a capacity <= 0 fails fast: a put on an LRUCache or
\* LFUCache with capacity <= 0 raises an error instead of completing with
\* the entry dropped or evicted at once.
C16_NonPositiveCapacityFailsFast ==
  (call.op = "put" /\ lru.capacity <= 0 /\ lfu.capacity <= 0) => call.threw

(***************************************************************************)
(* Calls with an index out of range                                        *)
(***************************************************************************)
\* C17: an index that is negative or >= n passed to UnionFind.find/union,
\* FenwickTree.update/prefixSum or SegmentTree.update fails fast: the call
\* raises an error, comes to an end, and leaves parent, rank, size, count
\* and the tree arrays as they were.
C17_OutOfRangeIndexFailsFast ==
  [][("outOfRange" \in DOMAIN call') =>
       /\ call'.threw
       /\ call'.terminated
       /\ uf' = uf /\ fen' = fen /\ pst' = pst]_vars

(***************************************************************************)
(* Calls for a key that is not cached                                      *)
(***************************************************************************)
\* C18: on an LRUCache and on an LFUCache, get(key) and delete(key) for a
\* key that is not cached return undefined, respectively false, raise no
\* error, and leave the cache as it was: keys, values, recency order and,
\* for the LFUCache, the frequencies, the frequency lists and minFrequency.
C18_MissReturnsNotFoundAndChangesNothing ==
  [][(call'.op \in {"get", "delete"} /\ ~call'.present) =>
       /\ call'.ret = (IF call'.op = "get" THEN NULL ELSE FALSE)
       /\ ~call'.threw
       /\ lru' = lru /\ lruGhost' = lruGhost
       /\ lfu' = lfu /\ lfuGhost' = lfuGhost]_vars

\* a delete has just missed on an LFU cache that holds two keys, one of them
\* read more often than the other
C18_Witness ==
  /\ call.op = "delete" /\ ~call.present /\ call.ret = FALSE
  /\ LFU_size(lfu) = 2
  /\ lfu.minFrequency = 1
  /\ \E k \in lfu.cache : lfu.frequency[k] = 2

(***************************************************************************)
(* The WithSteps variants against the plain functions                      *)
(***************************************************************************)
\* C19: the last snapshot of a WithSteps variant matches the result of the
\* plain function on the same input: the distances and path of the last
\* dijkstraWithSteps snapshot equal dijkstra's distances and previous, and
\* the mstEdges and totalWeight of the last kruskalWithSteps and
\* primWithSteps snapshot equal the edges and totalWeight of kruskal and prim.
C19_LastSnapshotMatchesPlainResult ==
  /\ ws.dijkstra # <<>> =>
       /\ LastStep(ws.dijkstra).distances = dj.distances
       /\ LastStep(ws.dijkstra).path = dj.previous
  /\ ws.kruskal # <<>> =>
       /\ LastStep(ws.kruskal).mstEdges = kr.edges
       /\ LastStep(ws.kruskal).totalWeight = kr.totalWeight
  /\ ws.prim # <<>> =>
       /\ LastStep(ws.prim).mstEdges = pr.edges
       /\ LastStep(ws.prim).totalWeight = pr.totalWeight

\* all three variants have run on the scenario graph; dijkstraWithSteps
\* recorded the improvement of vertex 1 from 4 to 3 on the way
C19_Witness ==
  /\ gin = ScenarioInput
  /\ ws.dijkstra # <<>> /\ ws.kruskal # <<>> /\ ws.prim # <<>>
  /\ \E i \in 1 .. Len(ws.dijkstra) : ws.dijkstra[i].distances[1] = 4
  /\ LastStep(ws.dijkstra).distances[1] = 3
  /\ Len(LastStep(ws.kruskal).mstEdges) = 3

(***************************************************************************)
(* dijkstra and getPath                                                    *)
(***************************************************************************)
\* the weights of the edges from u to v of the input
EdgeWeights(u, v) ==
  {gin.edges[i][3] : i \in {k \in 1 .. Len(gin.edges) :
     gin.edges[k][1] = u /\ gin.edges[k][2] = v}}

\* the total weights of the ways to walk path, one edge per consecutive pair
RECURSIVE WeightsAlong(_)
WeightsAlong(path) ==
  IF Len(path) <= 1
  THEN {0}
  ELSE {w + rest : w \in EdgeWeights(path[1], path[2]),
                   rest \in WeightsAlong(Tail(path))}

\* a pass of the loop never raises a distance, and where it lowers the
\* distance of v it sets previous[v] to the node it visits, over an edge
\* from that node that gives the new distance
RelaxationStep ==
  (dj.pc = "loop" /\ dj' # dj) =>
    \A v \in Vertices(gin.n) :
      /\ dj'.distances[v] <= dj.distances[v]
      /\ dj'.distances[v] < dj.distances[v] =>
           /\ dj'.visited \ dj.visited = {dj'.previous[v]}
           /\ \E w \in EdgeWeights(dj'.previous[v], v) :
                dj'.distances[v] = dj.distances[dj'.previous[v]] + w
      /\ dj'.distances[v] = dj.distances[v] =>
           dj'.previous[v] = dj.previous[v]

\* what getPath has returned for the vertex call.end
PathAnswer ==
  (call.op = "getPath") =>
    LET v == call.end
        s == gin.start
        path == call.ret.path
    IN  /\ dj.distances[v] # Infinity =>
             /\ call.ret.found
             /\ path[1] = s /\ path[Len(path)] = v
             /\ \A i \in 1 .. Len(path) - 1 :
                  EdgeWeights(path[i], path[i + 1]) # {}
             /\ dj.distances[v] \in WeightsAlong(path)
        /\ (v # s /\ v \notin Reachable(s)) =>
             /\ dj.distances[v] = Infinity
             /\ ~call.ret.found
        /\ v \in Reachable(s) => dj.distances[v] # Infinity

\* C20: with non-negative weights and {distances, previous} = dijkstra(graph,
\* s), for every v with finite distances[v] getPath(previous, s, v) starts at
\* s, ends at v, goes over edges of the graph and has weights that sum to
\* distances[v]; for every unreachable v # s, distances[v] is Infinity and
\* getPath returns null.  During the run a tentative distance never
\* increases, and previous[v] is set in the step of each decrease.
C20_PathsMatchDistances == [] PathAnswer /\ [][RelaxationStep]_vars

\* on the scenario graph getPath has returned the way 0 -> 2 -> 1 -> 3 of
\* weight 4
C20_Witness ==
  /\ gin = ScenarioInput
  /\ call.op = "getPath" /\ call.end = 3
  /\ call.ret = [found |-> TRUE, path |-> <<0, 2, 1, 3>>]
  /\ dj.distances[3] = 4

(***************************************************************************)
(* The vertices affected by a negative cycle                               *)
(***************************************************************************)
\* C21: findNodesAffectedByNegativeCycle(n, edges) returns exactly the
\* vertices v for which some vertex k with distances[k][k] < 0 can be
\* reached from v and can reach v; it returns the empty set when the graph
\* has no negative cycle.
C21_AffectedAreOnBothSidesOfNegativeCycle ==
  (call.op = "findNodesAffectedByNegativeCycle") =>
    LET distances == floydWarshall(gin.n, gin.edges).distances
    IN  /\ call.ret =
             {v \in Vertices(gin.n) :
                \E k \in Vertices(gin.n) :
                  /\ distances[k][k] < 0
                  /\ k \in Reachable(v)
                  /\ v \in Reachable(k)}
        /\ NegativeCycles = {} => call.ret = {}

(***************************************************************************)
(* The negative cycle that findNegativeCycle returns                       *)
(***************************************************************************)
\* C22: findNegativeCycle(vertices, edges) returns null when no cycle of
\* negative weight is reachable from vertices[0]; a sequence that it returns
\* is a cycle of the graph: its first and last vertex are equal, every
\* element is a vertex, every consecutive pair is an input edge, and the
\* edge weights along it sum to a negative total.
C22_ReturnedCycleIsNegativeCycle ==
  (call.op = "findNegativeCycle") =>
    LET cycle == call.ret.cycle
    IN  /\ (\A c \in NegativeCycles : c[1] \notin Reachable(0)) =>
             ~call.ret.found
        /\ call.ret.found =>
             /\ Len(cycle) >= 2
             /\ cycle[1] = cycle[Len(cycle)]
             /\ \A i \in 1 .. Len(cycle) : cycle[i] \in Vertices(gin.n)
             /\ \A i \in 1 .. Len(cycle) - 1 :
                  EdgeWeights(cycle[i], cycle[i + 1]) # {}
             /\ \E w \in WeightsAlong(cycle) : w < 0

(***************************************************************************)
(* FenwickTree.findFirst on a table of counts                              *)
(***************************************************************************)
\* the indices whose prefix sum over the plain array reaches target
Reaching(target) ==
  {i \in 0 .. fen.n - 1 : PlainSum(fenGhost.arr, 0, i) >= target}

\* C23: on a FenwickTree whose logical values are all non-negative, for
\* every target that some prefix sum reaches, findFirst(target) returns the
\* smallest index i with prefixSum(i) >= target.
C23_FindFirstIsSmallestReachingIndex ==
  /\ \A i \in 0 .. fen.n - 1 : fenGhost.arr[i] >= 0
  /\ (call.op = "findFirst" /\ Reaching(call.delta) # {}) =>
       /\ call.ret \in Reaching(call.delta)
       /\ \A i \in Reaching(call.delta) : call.ret <= i
  /\ \A target \in Targets :
       Reaching(target) # {} =>
         /\ FEN_findFirst(fen, target) \in Reaching(target)
         /\ \A i \in Reaching(target) : FEN_findFirst(fen, target) <= i

\* findFirst(3) has returned index 2 on the counts 2, 0, 1, x reached by
\* updates: the prefix sums are 2, 2, 3
C23_Witness ==
  /\ call.op = "findFirst" /\ call.delta = 3 /\ call.ret = 2
  /\ fen.n = 4
  /\ fenGhost.updates >= 1
  /\ fenGhost.arr[0] = 2 /\ fenGhost.arr[1] = 0 /\ fenGhost.arr[2] = 1

(***************************************************************************)
(* Properties of LRUCacheWithTTL                                           *)
(***************************************************************************)
\* key k is in the inner cache and the time is later than the time of its
\* last put plus the ttl of that put
Expired(k) ==
  /\ k \in ttl.cache.cache
  /\ ttlGhost[k].d # Infinity
  /\ now > ttlGhost[k].at + ttlGhost[k].d

\* key k is in the inner cache and has not expired
Fresh(k) == k \in ttl.cache.cache /\ ~Expired(k)

\* a get or has of an expired key answers "absent" and removes the entry
StaleAccess ==
  \A k \in Keys :
    (Expired(k) /\ call'.op \in {"get", "has"} /\ call'.key = k) =>
      /\ call'.ret = (IF call'.op = "get" THEN NULL ELSE FALSE)
      /\ k \notin ttl'.cache.cache

\* a get or has of an entry that has not expired answers with the stored
\* value, respectively true, and keeps the entry
FreshAccess ==
  \A k \in Keys :
    (Fresh(k) /\ call'.op \in {"get", "has"} /\ call'.key = k) =>
      /\ call'.ret = (IF call'.op = "get" THEN ttlGhost[k].value ELSE TRUE)
      /\ k \in ttl'.cache.cache
      /\ ttl'.cache.value[k] = ttl.cache.value[k]

\* nothing but an access to the expired key itself removes it because of
\* its age: the passing of time and the calls for other keys leave it in
\* the cache, where it counts towards the capacity; a put of a new key
\* removes one key only when the cache is full
LazyEviction ==
  /\ call'.op = "tick" => ttl' = ttl
  /\ \A k \in Keys :
       (k \in ttl.cache.cache /\ call'.op \in {"get", "has"}
          /\ call'.key # k) => k \in ttl'.cache.cache
  /\ (call'.op = "put" /\ LRU_size(ttl.cache) < ttl.cache.capacity) =>
       ttl.cache.cache \subseteq ttl'.cache.cache
  /\ (call'.op = "put" /\ call'.key \notin ttl.cache.cache
        /\ LRU_size(ttl.cache) = ttl.cache.capacity) =>
       /\ LRU_size(ttl'.cache) = ttl.cache.capacity
       /\ ttl.cache.cache \ ttl'.cache.cache =
            {LRU_keys(ttl.cache)[LRU_size(ttl.cache)]}

\* C24: with time as a clock, an entry put at time t with ttl d is absent
\* for every access at a time later than t + d: get returns undefined, has
\* returns false, and that access removes the entry from the inner
\* LRUCache.  The entry is not removed before such an access (an expired
\* entry that is not touched still occupies capacity), and an access at a
\* time <= t + d returns the stored value.
C24_ExpiredEntryAbsentAndLazilyRemoved ==
  [][StaleAccess /\ FreshAccess /\ LazyEviction]_vars

\* a get at time 2 has just removed the entry of key 1, put at time 0 with
\* ttl 1, while the entry of key 2, expired as well, is still cached
C24_Witness ==
  /\ call.op = "get" /\ call.key = 1 /\ call.ret = NULL
  /\ now = 2
  /\ 1 \notin ttl.cache.cache
  /\ Expired(2)
  /\ ttl.cache.capacity = 2
  /\ LRU_size(ttl.cache) = 1

(***************************************************************************)
(* minFrequency of the LFUCache                                            *)
(***************************************************************************)
\* C25: immediately after every mutating operation of an LFUCache (a get
\* that hits, a put, a delete that removes), if the cache is not empty then
\* frequencyMap has a bucket for minFrequency, that bucket holds at least
\* one entry, and minFrequency is the smallest frequency of a cached key.
C25_MinFrequencyNamesSmallestBucket ==
  (/\ \/ call.op = "get" /\ call.present
      \/ call.op = "put"
      \/ call.op = "delete" /\ call.present
   /\ lfu.cache # {}) =>
    /\ FM_has(lfu.frequencyMap, lfu.minFrequency)
    /\ ~DLL_isEmpty(lfu.frequencyMap[lfu.minFrequency])
    /\ \E k \in lfu.cache : lfu.frequency[k] = lfu.minFrequency
    /\ \A k \in lfu.cache : lfu.frequency[k] >= lfu.minFrequency

(***************************************************************************)
(* The lazy values of the LazySegmentTree                                  *)
(***************************************************************************)
\* the nodes of the tree below and including node, which covers [s, e]:
\* each with its range and the sum of the lazy values of its strict
\* ancestors (above)
RECURSIVE TreeNodes(_, _, _, _, _)
TreeNodes(t, node, s, e, above) ==
  {[node |-> node, s |-> s, e |-> e, above |-> above]} \cup
  (IF s = e
   THEN {}
   ELSE TreeNodes(t, 2 * node, s, Mid(s, e), above + t.lazy[node]) \cup
        TreeNodes(t, 2 * node + 1, Mid(s, e) + 1, e, above + t.lazy[node]))

SegNodes == TreeNodes(seg, 1, 0, seg.n - 1, 0)

\* [s, e] and [l, r] overlap and [s, e] is not inside [l, r]
PartialOverlap(s, e, l, r) == ~(r < s \/ e < l) /\ ~(l <= s /\ e <= r)

\* C26: after every rangeUpdate and query, for every tree node covering
\* [s, e], tree[node] plus (e - s + 1) times the sum of the lazy values of
\* its strict ancestors is the sum of the logical array over [s, e]; and
\* every node that the call descended through on a partial overlap has had
\* its lazy value pushed down and cleared.
C26_PendingLazyAccountsForSums ==
  /\ \A x \in SegNodes :
       seg.tree[x.node] + (x.e - x.s + 1) * x.above
         = PlainSum(segGhost.arr, x.s, x.e)
  /\ call.op \in {"rangeUpdate", "query"} =>
       \A x \in SegNodes :
         PartialOverlap(x.s, x.e, call.l, call.r) => seg.lazy[x.node] = 0

\* a query has just descended through the root of a 3-element tree and
\* pushed its lazy value down: the node covering [0, 1] holds it now, above
\* two leaves whose stored sums do not include it
C26_Witness ==
  /\ call.op = "query" /\ call.l = 2 /\ call.r = 2
  /\ seg.n = 3
  /\ seg.lazy[1] = 0 /\ seg.lazy[2] # 0
  /\ seg.tree[4] # segGhost.arr[0]
  /\ seg.tree[4] + seg.lazy[2] = segGhost.arr[0]

(***************************************************************************)
(* The shape of the UnionFind forest                                       *)
(***************************************************************************)
\* the element reached from x by following parent at most fuel times
RECURSIVE Climb(_, _, _)
Climb(u, x, fuel) ==
  IF fuel = 0 \/ u.parent[x] = x THEN x ELSE Climb(u, u.parent[x], fuel - 1)

\* the root above x, when the chain from x ends in one
RootOf(u, x) == Climb(u, x, Cardinality(Elems(u)))

\* no cycle but the self-loops of the roots, and ranks grow strictly along
\* every parent pointer
ForestShape ==
  /\ \A x \in Elems(uf) :
       /\ uf.parent[x] \in Elems(uf)
       /\ uf.parent[RootOf(uf, x)] = RootOf(uf, x)
       /\ uf.parent[x] # x => uf.rank[x] < uf.rank[uf.parent[x]]
       /\ UF_find(uf, x).ret = RootOf(uf, x)

\* a union of two different sets puts the root of lower rank under the
\* root of higher rank and changes no rank; with equal ranks one root goes
\* under the other, whose rank rises by 1; no other rank ever changes
UnionByRank ==
  LET rx == RootOf(uf, call'.x)
      ry == RootOf(uf, call'.y)
      lower == IF uf.rank[rx] < uf.rank[ry] THEN rx ELSE ry
      higher == IF uf.rank[rx] < uf.rank[ry] THEN ry ELSE rx
  IN  /\ (call'.op = "union" /\ rx # ry) =>
           /\ call'.ret
           /\ uf'.parent[lower] = higher
           /\ uf'.parent[higher] = higher
           /\ uf.rank[lower] < uf.rank[higher] => uf'.rank = uf.rank
           /\ uf.rank[lower] = uf.rank[higher] =>
                uf'.rank = [uf.rank EXCEPT ![higher] = @ + 1]
      /\ ~(call'.op = "union" /\ rx # ry) => uf'.rank = uf.rank

\* C27: after any sequence of union and find calls on valid indices the
\* parent pointers have no cycle other than a root pointing to itself and
\* rank[x] < rank[parent[x]] for every non-root x, so find(x) ends at the
\* root for every x; a union of two different sets attaches the root of
\* lower rank under the root of higher rank and raises a rank (the
\* surviving root's, by 1) only when the two ranks are equal.
C27_ForestIsAcyclicAndRanked == [] ForestShape /\ [][UnionByRank]_vars

\* a union has just put a single element under the root of a pair: the
\* root has rank 1 and three elements
C27_Witness ==
  /\ call.op = "union" /\ call.ret
  /\ \E r \in Elems(uf) :
       /\ uf.parent[r] = r /\ uf.rank[r] = 1 /\ uf.size[r] = 3
       /\ Cardinality({x \in Elems(uf) : uf.parent[x] = r}) = 3

(***************************************************************************)
(* What find changes                                                       *)
(***************************************************************************)
\* the elements on the chain of parent pointers from x to its root
RECURSIVE ChainFrom(_, _, _)
ChainFrom(u, x, fuel) ==
  IF fuel = 0 \/ u.parent[x] = x
  THEN {x}
  ELSE {x} \cup ChainFrom(u, u.parent[x], fuel - 1)

Chain(u, x) == ChainFrom(u, x, Cardinality(Elems(u)))

\* find(x) returns the root of x, points every element of the chain from x
\* at the root, and changes nothing else
FindCompresses ==
  (call'.op = "find") =>
    LET x == call'.x
        root == RootOf(uf, x)
    IN  /\ call'.ret = root
        /\ \A e \in Chain(uf, x) : uf'.parent[e] = root
        /\ \A e \in Elems(uf) \ Chain(uf, x) : uf'.parent[e] = uf.parent[e]
        /\ uf'.rank = uf.rank
        /\ uf'.size = uf.size
        /\ uf'.count = uf.count
        /\ \A a, b \in Elems(uf) :
             (RootOf(uf', a) = RootOf(uf', b)) = (RootOf(uf, a) = RootOf(uf, b))
        /\ \A a, b \in Elems(uf) :
             UF_connected(uf', a, b).ret = UF_connected(uf, a, b).ret

\* C28: find(x) returns the root of x's set; on return every element that
\* was on the parent chain from x to that root has the root as its parent;
\* no other parent pointer changes, and rank, size, count and the partition
\* into sets (connected(a, b) for every a, b) are as before the call.
C28_FindCompressesOnlyItsPath == [][FindCompresses]_vars

\* a find has just returned the root of a four-element set for an element
\* of rank 0 that now hangs directly under the root, while the element of
\* rank 1 under which it was linked has no child left
C28_Witness ==
  /\ call.op = "find" /\ call.ret # call.x
  /\ uf.parent[call.x] = call.ret
  /\ uf.rank[call.x] = 0 /\ uf.rank[call.ret] = 2
  /\ \E m \in Elems(uf) \ {call.x, call.ret} :
       /\ uf.rank[m] = 1
       /\ uf.parent[m] = call.ret
       /\ \A e \in Elems(uf) : uf.parent[e] # m

(***************************************************************************)
(* The capacity of the caches                                              *)
(***************************************************************************)
\* neither cache holds more keys than its capacity
WithinCapacity ==
  /\ LRU_size(lru) <= lru.capacity
  /\ LFU_size(lfu) <= lfu.capacity

\* what a call on the cache with key set before and after, of capacity cap,
\* may remove: a get and a put of a cached key nothing, a put of a new key
\* exactly one cached key if the cache was full and nothing otherwise
RemovesAtMostTheEvicted(before, after, cap) ==
  /\ call'.op = "get" => before \subseteq after
  /\ (call'.op = "put" /\ call'.key \in before) => after = before
  /\ (call'.op = "put" /\ call'.key \notin before /\ after # before) =>
       /\ call'.key \in after
       /\ Cardinality(before) = cap =>
            Cardinality(before \ after) = 1 /\ Cardinality(after) = cap
       /\ Cardinality(before) < cap => before \subseteq after

\* a put on a cache of capacity >= 1 always takes effect
PutStores ==
  call'.op = "put" => (call'.key \in lru'.cache \/ call'.key \in lfu'.cache)

\* C29: an LRUCache or LFUCache of capacity C >= 1 holds at most C keys
\* after every get, put and delete; a put of a new key into a cache that
\* holds C keys removes exactly one of the keys cached before, and a put of
\* a cached key or a get removes none.
C29_CapacityBoundAndSingleEviction ==
  /\ [] WithinCapacity
  /\ [][/\ RemovesAtMostTheEvicted(lru.cache, lru'.cache, lru.capacity)
        /\ RemovesAtMostTheEvicted(lfu.cache, lfu'.cache, lfu.capacity)
        /\ PutStores]_vars

\* a put of a new key into a full LFU cache of capacity 3 has just replaced
\* one key, after a delete had taken a key out earlier
C29_Witness ==
  /\ call.op = "put" /\ ~call.present /\ call.sizeBefore = 3
  /\ lfu.capacity = 3 /\ LFU_size(lfu) = 3
  /\ call.key \in lfu.cache
  /\ \E k \in lfu.cache : lfu.frequency[k] > 1

(***************************************************************************)
(* Rollback to a checkpoint                                                *)
(***************************************************************************)
\* rollback(c), for c returned by a save() that only unions (and finds and
\* saves) followed, brings back the parent array, the root of every element
\* and the connectedness of every pair of the time of that save()
RollbackRestores ==
  call'.op = "rollback" =>
    \A g \in rbGhost : g.c = call'.checkpoint =>
      /\ rb'.parent = g.parent
      /\ \A x \in RbElems : RB_find(rb', x) = g.roots[x]
      /\ \A x, y \in RbElems :
           (RB_find(rb', x) = RB_find(rb', y)) <=> (g.roots[x] = g.roots[y])

\* a union that returns false leaves the history, and the object, as it was,
\* and one that returns true adds one entry
FalseUnionUnrecorded ==
  call'.op = "union" =>
    IF call'.ret
    THEN Len(rb'.history) = Len(rb.history) + 1
    ELSE rb'.history = rb.history /\ rb' = rb

\* C30: for any sequence of unions, if c = save() is taken and further
\* unions are then performed, rollback(c) restores the parent array to its
\* value at the time of save(), so find(x) for every x and the connectedness
\* of every pair are the same as at the checkpoint; unions that returned
\* false add nothing to the history.
C30_RollbackRestoresCheckpoint ==
  [][RollbackRestores /\ FalseUnionUnrecorded]_vars

\* rollback(c) has just undone two unions made after a save() that itself
\* followed a union, one of them attaching a root of smaller rank
C30_Witness ==
  /\ call.op = "rollback" /\ call.undone >= 2 /\ call.checkpoint >= 1
  /\ \E g \in rbGhost : g.c = call.checkpoint /\ g.parent = rb.parent
  /\ \E x \in RbElems : rb.rank[x] = 2

====
